---------------------------- MODULE Spec2Model ----------------------------
(***************************************************************************)
(* Model of the recommendation subsystem of the fora server:               *)
(*   app/ml/recommender.py  signal calculators, hybrid score, ranking      *)
(*   app/ml/scheduler.py    MLSchedulerService and its three job wrappers  *)
(*   app/ml/training.py     the training jobs run by the wrappers          *)
(*                                                                         *)
(* Numbers.  Python floats are modelled in fixed point:                    *)
(*   component scores    in 1/1000   (0.5  is 500)                         *)
(*   hybrid weights      in 1/100    (0.25 is 25)                          *)
(*   final hybrid score  in 1/100000                                       *)
(*   engagement, trending (training.py) in 1/10                            *)
(*   coordinates in tenths of a degree, distances in km, time in days.     *)
(* exp and log1p are tables of the rounded true values.                    *)
(*                                                                         *)
(* Python values.  A dict is a function whose DOMAIN is the set of keys    *)
(* present.  A value that may be None is wrapped: Null is None and         *)
(* Some(v) is v.  An operator that can raise returns Raise.                *)
(***************************************************************************)
EXTENDS Integers, Sequences, FiniteSets, TLC

\* ------------------------------------------------------------------ bounds
MaxListings == 3        \* longest candidate list handed to rank_listings
MaxTopN     == 2        \* largest top_n handed to rank_listings
MaxClock    == 2        \* wall-clock ticks observed by the ranking path

\* ------------------------------------------------------------------- state
VARIABLES
  now,           \* the wall clock read by datetime.utcnow(), in days
  \* --- the ranking path
  rk_args,       \* the arguments of the calls: user_uid, listings, user_data, top_n
  rk_result,     \* what the latest call with rk_args returned
  rk_prev,       \* what the call before it returned
  rk_at,         \* the clock value the latest call read
  \* --- MLSchedulerService
  is_running,    \* self.is_running
  sched_state,   \* the BackgroundScheduler: "stopped", "running", or "stopping"
                 \* (shutdown() has stopped the timers and waits for running jobs)
  sched_jobs,    \* ids of the jobs in its job store, in registration order
  last_call,     \* the latest start() or stop() call and how it ended
  \* --- the runs of the three jobs (a wrapper firing or a direct call)
  daily_run,     \* compute_user_similarity_matrix, then update_user_feature_vectors
  eng_run,       \* update_engagement_scores
  freq_run,      \* refresh_trending_listings_view
  outcome,       \* the run that ended last, and how it ended for its caller
  \* --- MLTrainingService.collaborative_filter
  cf,
  \* --- the persistence layer
  interactions,      \* table user_interactions (append-only): its rows in order,
                     \* kept as runs [row, count] of equal consecutive rows
  metrics,           \* table listing_engagement_metrics, by listing_id
  sim_rows,          \* table user_similarity_matrix, by (user_a_uid, user_b_uid)
  feature_vectors,   \* table user_feature_vectors, by user_uid
  view_fresh,        \* the trending_listings materialized view is up to date
  faults_left,       \* store requests that may still fail
  \* --- a CollaborativeFilter called directly
  cf_input,      \* the interaction list its caller holds
  cf_call,       \* the latest call on the filter and what it returned
  \* --- FeedCRUD.get_personalized_feed
  feed_call,     \* the call: its arguments, its position, what it returned
  impressions,   \* table feed_impressions (append-only)
  \* --- a ContentBasedFilter called directly
  cb_call        \* the arguments its caller holds, the latest call, its result

rankVars  == <<rk_args, rk_result, rk_prev, rk_at>>
reqVars   == <<cf_input, cf_call, feed_call, impressions, cb_call>>
schedVars == <<is_running, sched_state, sched_jobs, last_call>>
runVars   == <<daily_run, eng_run, freq_run, outcome>>
storeVars == <<interactions, metrics, sim_rows, feature_vectors, view_fresh, faults_left>>
vars == <<now, rankVars, reqVars, schedVars, runVars, cf, storeVars>>

\* ----------------------------------------------------------- Python values
Null     == <<>>
Some(v)  == <<v>>
IsNone(x) == x = Null
Val(x)   == x[1]
Raise    == -1           \* a number-valued operator raised
Failed   == <<>>         \* a structure-valued operator raised

\* dict.get(key, default)
Get(d, k, dflt) == IF k \in DOMAIN d THEN d[k] ELSE dflt

\* Python truthiness of an optional number: None and 0 are falsy
Truthy(x) == (~IsNone(x)) /\ Val(x) # 0

Min(a, b) == IF a < b THEN a ELSE b
Max(a, b) == IF a > b THEN a ELSE b

\* the elements of a Python list, as a set
ToSet(s) == {s[i] : i \in DOMAIN s}

\* ------------------------------------------------------------------ tables
\* round(1000 * exp(-k/10)), k = 0..70
ExpNegTable ==
  <<1000, 905, 819, 741, 670, 607, 549, 497, 449, 407, 368, 333, 301, 273,
    247, 223, 202, 183, 165, 150, 135, 122, 111, 100, 91, 82, 74, 67, 61, 55,
    50, 45, 41, 37, 33, 30, 27, 25, 22, 20, 18, 17, 15, 14, 12, 11, 10, 9, 8,
    7, 7, 6, 6, 5, 5, 4, 4, 3, 3, 3, 2, 2, 2, 2, 2, 2, 1, 1, 1, 1, 1>>

\* 1000 * exp(-k/10) for an integer k (k may be negative: exp grows past 1)
ExpNeg(k) == IF k < 0 THEN 1000 - 100 * k
             ELSE IF k > 70 THEN 0 ELSE ExpNegTable[k + 1]

\* round(100 * log1p(n)), n = 0..60
Log1pTable ==
  <<0, 69, 110, 139, 161, 179, 195, 208, 220, 230, 240, 248, 256, 264, 271,
    277, 283, 289, 294, 300, 304, 309, 314, 318, 322, 326, 330, 333, 337, 340,
    343, 347, 350, 353, 356, 358, 361, 364, 366, 369, 371, 374, 376, 378, 381,
    383, 385, 387, 389, 391, 393, 395, 397, 399, 401, 403, 404, 406, 408, 409,
    411>>

Log1p(n) == IF n > 60 THEN 411 ELSE Log1pTable[n + 1]

\* haversine distance in km between points whose coordinates differ by
\* dlat, dlon tenths of a degree (0..3), near the equator
HaversineTable ==
  <<  <<0, 11, 22, 33>>,
      <<11, 16, 25, 35>>,
      <<22, 25, 31, 40>>,
      <<33, 35, 40, 47>> >>

Abs(x) == IF x < 0 THEN -x ELSE x

\* ------------------------------------------------------ signal calculators
calculate_location_distance(lat1, lon1, lat2, lon2) ==
  HaversineTable[Abs(lat2 - lat1) + 1][Abs(lon2 - lon1) + 1]

\* `if not all([...])` is a truthiness test: None and 0.0 both fail it
calculate_location_score(user_lat, user_lon, listing_lat, listing_lon, max_distance) ==
  IF ~(Truthy(user_lat) /\ Truthy(user_lon) /\ Truthy(listing_lat) /\ Truthy(listing_lon))
  THEN 500
  ELSE IF IsNone(max_distance) \/ Val(max_distance) = 0
       THEN Raise     \* None / 3 is a TypeError, distance / 0.0 a ZeroDivisionError
       ELSE LET distance == calculate_location_distance(
                              Val(user_lat), Val(user_lon),
                              Val(listing_lat), Val(listing_lon))
                k == (60 * distance + Val(max_distance)) \div (2 * Val(max_distance))
            IN  Max(0, Min(1000, ExpNeg(k)))

\* a variant that counts list entries instead of building the two sets
calculate_tag_similarity_OnLists(user_tags, listing_tags) ==
  IF IsNone(user_tags) \/ IsNone(listing_tags) THEN 500
  ELSE IF Val(user_tags) = <<>> \/ Val(listing_tags) = <<>> THEN 500
  ELSE LET listing_set == ToSet(Val(listing_tags))
           intersection == Len(SelectSeq(Val(user_tags), LAMBDA t : t \in listing_set))
           union == Len(Val(user_tags)) + Len(Val(listing_tags)) - intersection
       IN  IF union = 0 THEN 0 ELSE (1000 * intersection) \div union

\* Jaccard index of the two tag sets; None or [] on either side is neutral
calculate_tag_similarity(user_tags, listing_tags) ==
  IF IsNone(user_tags) \/ IsNone(listing_tags) THEN 500
  ELSE IF Val(user_tags) = <<>> \/ Val(listing_tags) = <<>> THEN 500
  ELSE LET user_set == ToSet(Val(user_tags))
           listing_set == ToSet(Val(listing_tags))
           intersection == Cardinality(user_set \cap listing_set)
           union == Cardinality(user_set \cup listing_set)
       IN  IF union = 0 THEN 0 ELSE (1000 * intersection) \div union

\* the raw weighted sum of the six counters
EngagementRaw(view_count, click_count, apply_count, save_count, share_count, dismiss_count) ==
  apply_count * 10 + save_count * 5 + share_count * 3 + click_count * 2
    + view_count * 1 - dismiss_count * 5

\* engagement score in 1/10: log1p(raw) * 10 when raw > 0, floored at 0;
\* a None counter makes the arithmetic raise TypeError
calculate_engagement_score(view_count, click_count, apply_count, save_count, share_count, dismiss_count) ==
  IF \E c \in {view_count, click_count, apply_count, save_count, share_count, dismiss_count} : IsNone(c)
  THEN Raise
  ELSE LET score == EngagementRaw(Val(view_count), Val(click_count), Val(apply_count),
                                  Val(save_count), Val(share_count), Val(dismiss_count))
       IN  IF score > 0 THEN Max(0, Log1p(score)) ELSE Max(0, score)

\* created_at is None, a naive datetime or an aware one; current_time is
\* the naive datetime.utcnow().  Subtracting None or an aware datetime from a
\* naive one raises TypeError.
calculate_recency_score(created_at, current_time) ==
  IF IsNone(created_at) THEN Raise
  ELSE IF Val(created_at).tz = "aware" THEN Raise
  ELSE LET age_days == current_time - Val(created_at).day
       IN  Max(0, Min(1000, ExpNeg(age_days)))

calculate_poster_quality_score(poster_rating, num_listings_posted, num_listings_completed) ==
  IF IsNone(num_listings_posted) THEN Raise       \* None > 0
  ELSE IF Val(num_listings_posted) > 0 /\ IsNone(num_listings_completed) THEN Raise
  ELSE LET rating == IF Truthy(poster_rating) THEN Val(poster_rating) ELSE 3
           posted == Val(num_listings_posted)
           rating_score == rating * 200
           completion_rate == IF posted > 0
                              THEN (1000 * Val(num_listings_completed)) \div Max(posted, 1)
                              ELSE 500
           experience_factor == Min(1000, 2 * Log1p(posted))
           quality_score == (rating_score * 5 + completion_rate * 3 + experience_factor * 2) \div 10
       IN  Max(0, Min(1000, quality_score))

\* -------------------------------------------------------- hybrid recommender
DefaultWeights ==
  [location |-> 25, tags |-> 20, engagement |-> 15, recency |-> 10,
   poster_quality |-> 10, collaborative |-> 10, content |-> 10]

Components == {"location", "tags", "engagement", "recency", "poster_quality",
               "collaborative", "content"}

RECURSIVE SumOver(_, _)
SumOver(f, S) == IF S = {} THEN 0
                 ELSE LET x == CHOOSE y \in S : TRUE
                      IN  f[x] + SumOver(f, S \ {x})

\* the seven component scores of one listing: Some(record), or Failed when a
\* calculator raises.  A created_at given as a str is parsed first
\* (fromisoformat of a string with 'Z' or an offset gives an aware datetime).
ComponentScores(listing, user_data, utcnow) ==
  LET location == calculate_location_score(
                    Get(user_data, "latitude", Null), Get(user_data, "longitude", Null),
                    Get(listing, "latitude", Null), Get(listing, "longitude", Null),
                    Get(user_data, "max_distance_km", Some(50)))
      tags == calculate_tag_similarity(
                    Get(user_data, "preferred_tags", Some(<<>>)),
                    Get(listing, "tags", Some(<<>>)))
      eng == calculate_engagement_score(
                    Get(listing, "view_count", Some(0)), Get(listing, "click_count", Some(0)),
                    Get(listing, "apply_count", Some(0)), Get(listing, "save_count", Some(0)),
                    Get(listing, "share_count", Some(0)), Get(listing, "dismiss_count", Some(0)))
      recency == calculate_recency_score(Get(listing, "created_at", Null), utcnow)
      poster == calculate_poster_quality_score(
                    Get(listing, "poster_rating", Null),
                    Get(listing, "poster_num_listings", Some(0)),
                    Get(listing, "poster_num_completed", Some(0)))
  IN  IF Raise \in {location, tags, eng, recency, poster} THEN Failed
      ELSE Some([location |-> location, tags |-> tags,
            engagement |-> eng,      \* (1/10 units) / 100.0, in 1/1000
            recency |-> recency, poster_quality |-> poster,
            collaborative |-> 500, content |-> 500])

\* a variant that sums the five computed signals and leaves the two
\* placeholder components out of the final score
calculate_hybrid_score_FiveSignals(user_uid, listing, user_data, utcnow) ==
  LET scores == ComponentScores(listing, user_data, utcnow)
      computed == Components \ {"collaborative", "content"}
  IN  IF scores = Failed THEN Failed
      ELSE LET component_scores == Val(scores)
           IN  <<SumOver([c \in computed |-> DefaultWeights[c] * component_scores[c]],
                         computed),
                 component_scores>>

\* (final_score, component_scores), or Failed
calculate_hybrid_score(user_uid, listing, user_data, utcnow) ==
  LET scores == ComponentScores(listing, user_data, utcnow)
  IN  IF scores = Failed THEN Failed
      ELSE LET component_scores == Val(scores)
           IN  <<SumOver([c \in Components |-> DefaultWeights[c] * component_scores[c]],
                         Components),
                 component_scores>>

\* one output entry: {**listing, 'recommendation_score': .., 'score_components': ..}
Entry(listing, score, components) ==
  ("recommendation_score" :> score @@ "score_components" :> components) @@ listing

\* an unstable variant: an entry goes before the entries it ties with
RECURSIVE InsertDesc_TiesFirst(_, _)
InsertDesc_TiesFirst(sorted, e) ==
  IF sorted = <<>> THEN <<e>>
  ELSE IF Head(sorted).recommendation_score > e.recommendation_score
       THEN <<Head(sorted)>> \o InsertDesc_TiesFirst(Tail(sorted), e)
       ELSE <<e>> \o sorted

\* list.sort(key=recommendation_score, reverse=True): a stable sort, so an
\* entry goes after every entry whose score is greater than or equal to its own
RECURSIVE InsertDesc(_, _)
InsertDesc(sorted, e) ==
  IF sorted = <<>> THEN <<e>>
  ELSE IF Head(sorted).recommendation_score >= e.recommendation_score
       THEN <<Head(sorted)>> \o InsertDesc(Tail(sorted), e)
       ELSE <<e>> \o sorted

RECURSIVE SortDesc(_)
SortDesc(entries) ==
  IF entries = <<>> THEN <<>>
  ELSE InsertDesc(SortDesc(SubSeq(entries, 1, Len(entries) - 1)), entries[Len(entries)])

\* ranked_listings[:top_n]
Take(s, n) == SubSeq(s, 1, Min(n, Len(s)))

\* `if top_n:` is a truthiness test: None and 0 both return the whole list
Truncate(ranked, top_n) ==
  IF Truthy(top_n) THEN Take(ranked, Val(top_n)) ELSE ranked

\* the result of a call: [status |-> "ok", list |-> ranked] or, when scoring
\* a listing raises, [status |-> "raised", list |-> <<>>]
rank_listings(user_uid, listings, user_data, top_n, utcnow) ==
  LET scored == [i \in DOMAIN listings |->
                   calculate_hybrid_score(user_uid, listings[i], user_data, utcnow)]
  IN  IF \E i \in DOMAIN listings : scored[i] = Failed
      THEN [status |-> "raised", list |-> <<>>]
      ELSE LET ranked_listings ==
                 [i \in DOMAIN listings |-> Entry(listings[i], scored[i][1], scored[i][2])]
           IN  [status |-> "ok", list |-> Truncate(SortDesc(ranked_listings), top_n)]

\* ===================================================================
\* The ranking path: calls of HybridRecommender.rank_listings
\* ===================================================================
CreatedNaive(d) == Some([tz |-> "naive", day |-> d])
CreatedAware(d) == Some([tz |-> "aware", day |-> d])

\* candidate listings as the feed query hands them over
ListingFull(id, day) ==
  [id |-> id, latitude |-> Some(1), longitude |-> Some(1), tags |-> Some(<<1, 2>>),
   view_count |-> Some(3), click_count |-> Some(1), apply_count |-> Some(1),
   save_count |-> Some(0), share_count |-> Some(0), dismiss_count |-> Some(0),
   created_at |-> CreatedNaive(day),
   poster_rating |-> Some(4), poster_num_listings |-> Some(2),
   poster_num_completed |-> Some(1)]

\* no location, no tags, no metrics record, no poster statistics
ListingBare(id, day) ==
  [id |-> id, latitude |-> Null, longitude |-> Null, tags |-> Null,
   created_at |-> CreatedNaive(day), poster_rating |-> Null]

\* a listing on the equator with many applications, posted three days ago
ListingHot(id) ==
  [id |-> id, latitude |-> Some(0), longitude |-> Some(2), tags |-> Some(<<1>>),
   view_count |-> Some(9), click_count |-> Some(3), apply_count |-> Some(4),
   save_count |-> Some(1), share_count |-> Some(0), dismiss_count |-> Some(1),
   created_at |-> CreatedNaive(-3),
   poster_rating |-> Some(5), poster_num_listings |-> Some(4),
   poster_num_completed |-> Some(4)]

Without(d, k) == [x \in DOMAIN d \ {k} |-> d[x]]

Catalog ==
  { ListingFull(1, 0),
    ListingFull(2, 0),                                   \* scores as listing 1
    ListingBare(3, 0),
    Without(ListingFull(4, 0), "created_at"),            \* creation time missing
    [ListingFull(5, 0) EXCEPT !.view_count = Null],      \* a null counter
    [ListingFull(6, 0) EXCEPT !.created_at = CreatedAware(0)],
    ListingHot(7) }

UserContexts ==
  { [latitude |-> Some(1), longitude |-> Some(2), preferred_tags |-> Some(<<1>>),
     max_distance_km |-> Some(50)],
    [preferred_tags |-> Some(<<>>)],                     \* no profile, no preferences
    [latitude |-> Some(0), longitude |-> Some(2), preferred_tags |-> Some(<<1>>),
     max_distance_km |-> Some(50)],                      \* a user on the equator
    [latitude |-> Some(1), longitude |-> Some(2), preferred_tags |-> Some(<<2, 3, 2>>),
     max_distance_km |-> Some(50)],                      \* a tag listed twice
    [latitude |-> Some(1), longitude |-> Some(2), preferred_tags |-> Some(<<1>>),
     max_distance_km |-> Null] }

\* lists of at most n candidates with distinct ids
RECURSIVE CandidateLists(_)
CandidateLists(n) ==
  IF n = 0 THEN {<<>>}
  ELSE LET shorter == CandidateLists(n - 1)
       IN  shorter \cup
           { Append(s, l) : s \in {t \in shorter : Len(t) = n - 1},
                            l \in Catalog }

DistinctIds(s) == \A i, j \in DOMAIN s : i # j => s[i].id # s[j].id

TopNs == {Null} \cup {Some(n) : n \in 0..MaxTopN}

NoResult == [status |-> "none", list |-> <<>>]

RankInit ==
  /\ now = 0
  /\ rk_args \in { [user_uid |-> 1, listings |-> ls, user_data |-> ud, top_n |-> tn] :
                     ls \in {s \in CandidateLists(MaxListings) : DistinctIds(s)},
                     ud \in UserContexts, tn \in TopNs }
  /\ rk_result = NoResult
  /\ rk_prev = NoResult
  /\ rk_at = 0

\* one call of rank_listings with the arguments rk_args
RankCall ==
  /\ rk_result' = rank_listings(rk_args.user_uid, rk_args.listings,
                                rk_args.user_data, rk_args.top_n, now)
  /\ rk_prev' = rk_result
  /\ rk_at' = now
  /\ UNCHANGED <<now, rk_args, reqVars, schedVars, runVars, cf, storeVars>>

\* a day passes
Tick ==
  /\ now < MaxClock
  /\ now' = now + 1
  /\ UNCHANGED <<rankVars, reqVars, schedVars, runVars, cf, storeVars>>

NextRank == RankCall \/ Tick

\* ===================================================================
\* CollaborativeFilter (recommender.py) as the training service uses it
\* ===================================================================
MinInteractions == 100     \* fewer interactions than this: no training
TopNeighbours   == 50      \* neighbours kept per user
WindowDays      == 90      \* the training window
TrendingDays    == 1       \* the trending window (24 hours)

InteractionWeight(kind) ==
  CASE kind = "apply"   -> 10
    [] kind = "save"    -> 5
    [] kind = "share"   -> 3
    [] kind = "click"   -> 2
    [] kind = "view"    -> 1
    [] kind = "dismiss" -> -5
    [] OTHER            -> 1

\* {x: idx for idx, x in enumerate(sorted(S))}
IndexMap(S) == [x \in S |-> Cardinality({y \in S : y < x})]

\* the key of a dict whose value is idx (the reverse linear scan)
KeyOf(map, idx) == CHOOSE k \in DOMAIN map : map[k] = idx

\* user_item_scores[u][l]: the summed weights of the interactions of user u
\* with listing l (summed kind by kind)
CellSum(ints, u, l) ==
  LET mine == {k \in DOMAIN ints : ints[k].user_uid = u /\ ints[k].listing_id = l}
      kinds == {ints[k].interaction_type : k \in mine}
  IN  SumOver([kind \in kinds |->
                 InteractionWeight(kind)
                   * Cardinality({k \in mine : ints[k].interaction_type = kind})],
              kinds)

\* The filter after build_user_item_matrix(ints) on the filter f: new index
\* maps and a new sparse matrix, a function from the stored (row, column)
\* pairs to their values; the similarity matrix is left as it was.
build_user_item_matrix(f, ints) ==
  LET users == {ints[k].user_uid : k \in DOMAIN ints}
      items == {ints[k].listing_id : k \in DOMAIN ints}
      user_index_map == IndexMap(users)
      item_index_map == IndexMap(items)
      pairs == {<<ints[k].user_uid, ints[k].listing_id>> : k \in DOMAIN ints}
      stored == {<<user_index_map[p[1]], item_index_map[p[2]]>> : p \in pairs}
      matrix == [q \in stored |->
                   CellSum(ints, KeyOf(user_index_map, q[1]),
                           KeyOf(item_index_map, q[2]))]
  IN  [f EXCEPT !.user_index_map = user_index_map,
                !.item_index_map = item_index_map,
                !.user_item_matrix = Some(matrix)]

\* matrix[row].indices: the columns stored in a row
RowItems(m, a) == {q[2] : q \in {r \in DOMAIN m : r[1] = a}}

\* the dot product of two rows
RowDot(m, a, b) ==
  LET common == RowItems(m, a) \cap RowItems(m, b)
  IN  SumOver([i \in common |-> m[<<a, i>>] * m[<<b, i>>]], common)

\* cosine_similarity(matrix): the entry of rows a and b is dot / sqrt(na * nb),
\* and 0 when either row has norm 0.  An entry is kept as its three integers.
CosineSimilarity(m) ==
  LET rows == {q[1] : q \in DOMAIN m}
  IN  [a \in rows |-> [b \in rows |->
        [dot |-> RowDot(m, a, b), na |-> RowDot(m, a, a), nb |-> RowDot(m, b, b)]]]

\* calculate_user_similarity without the test of recommender.py:304-305: a
\* missing matrix is taken for an empty one
calculate_user_similarity_Unguarded(f) ==
  Some([f EXCEPT !.user_similarity_matrix =
          Some(IF IsNone(f.user_item_matrix) THEN <<>>
               ELSE CosineSimilarity(Val(f.user_item_matrix)))])

\* calculate_user_similarity on the filter f: Failed (ValueError) when the
\* matrix was never built
calculate_user_similarity(f) ==
  IF IsNone(f.user_item_matrix) THEN Failed
  ELSE Some([f EXCEPT !.user_similarity_matrix = Some(CosineSimilarity(Val(f.user_item_matrix)))])

\* the sign of a similarity entry
SimSign(x) == IF x.na = 0 \/ x.nb = 0 \/ x.dot = 0 THEN 0
              ELSE IF x.dot > 0 THEN 1 ELSE -1

\* x < y for two entries of one row (x.na = y.na)
SimLess(x, y) ==
  LET sx == SimSign(x)
      sy == SimSign(y)
  IN  IF sx # sy THEN sx < sy
      ELSE IF sx = 0 THEN FALSE
      ELSE IF sx > 0 THEN x.dot * x.dot * y.nb < y.dot * y.dot * x.nb
      ELSE x.dot * x.dot * y.nb > y.dot * y.dot * x.nb

\* similarity_score <= 0.1
AtMostThreshold(x) ==
  ~(SimSign(x) > 0 /\ 100 * x.dot * x.dot > x.na * x.nb)

RECURSIVE IsqrtBetween(_, _, _)
IsqrtBetween(n, lo, hi) ==        \* lo * lo <= n < hi * hi
  IF hi - lo <= 1 THEN lo
  ELSE LET mid == (lo + hi) \div 2
       IN  IF mid * mid <= n THEN IsqrtBetween(n, mid, hi)
           ELSE IsqrtBetween(n, lo, mid)

Isqrt(n) == IsqrtBetween(n, 0, 46340)

\* float(similarity_score), in 1/1000
SimScore(x) == IF SimSign(x) = 0 THEN 0 ELSE (1000 * x.dot) \div Isqrt(x.na * x.nb)

\* numpy argsort of one row: the indices by ascending similarity; the arrays
\* here are short, where numpy sorts by insertion, so ties stay in index
\* order.  Index j stands before index i when ComesBefore(row, j, i).
ComesBefore(row, j, i) ==
  SimLess(row[j], row[i]) \/ (~SimLess(row[i], row[j]) /\ j < i)

Argsort(row) ==
  [p \in 1..Cardinality(DOMAIN row) |->
     CHOOSE i \in DOMAIN row :
       Cardinality({j \in DOMAIN row : ComesBefore(row, j, i)}) = p - 1]

Reverse(s) == [i \in 1..Len(s) |-> s[Len(s) + 1 - i]]

\* similarities.argsort()[::-1][1:k+1]
TopSimilar(row, k) ==
  LET order == Reverse(Argsort(row))
  IN  SubSeq(order, 2, Min(k + 1, Len(order)))

\* recommender.py:272-281, the loop as written: user_item_scores after the
\* interactions k, k+1, ... of the list are added, one by one, to scores
\* (a dict from (user_idx, item_idx) to the sum so far, 0.0 by default).
\* The variant before it assigns where the code adds.
RECURSIVE user_item_scores_LastWins(_, _, _, _, _)
user_item_scores_LastWins(ints, k, scores, user_index_map, item_index_map) ==
  IF k > Len(ints) THEN scores
  ELSE LET key == <<user_index_map[ints[k].user_uid], item_index_map[ints[k].listing_id]>>
           weight == InteractionWeight(ints[k].interaction_type)
       IN  user_item_scores_LastWins(ints, k + 1,
             [x \in DOMAIN scores \cup {key} |-> IF x = key THEN weight ELSE scores[x]],
             user_index_map, item_index_map)

RECURSIVE user_item_scores(_, _, _, _, _)
user_item_scores(ints, k, scores, user_index_map, item_index_map) ==
  IF k > Len(ints) THEN scores
  ELSE LET key == <<user_index_map[ints[k].user_uid], item_index_map[ints[k].listing_id]>>
           weight == InteractionWeight(ints[k].interaction_type)
       IN  user_item_scores(ints, k + 1,
             [x \in DOMAIN scores \cup {key} |->
                IF x = key THEN Get(scores, key, 0) + weight ELSE scores[x]],
             user_index_map, item_index_map)

\* a variant that patches the structures of the build before: the users and
\* items the filter knows stay in the index maps
BuildMatrix_Patching(f, ints) ==
  LET users == DOMAIN f.user_index_map \cup {ints[k].user_uid : k \in DOMAIN ints}
      items == DOMAIN f.item_index_map \cup {ints[k].listing_id : k \in DOMAIN ints}
      user_index_map == IndexMap(users)
      item_index_map == IndexMap(items)
  IN  [f EXCEPT !.user_index_map = user_index_map,
                !.item_index_map = item_index_map,
                !.user_item_matrix =
                   Some(user_item_scores(ints, 1, <<>>, user_index_map, item_index_map))]

\* build_user_item_matrix as written, for the short lists of a direct caller
\* (build_user_item_matrix above is its closed form, used on the long reads
\* of a training run): csr_matrix stores one entry per key of the dict
BuildMatrix(f, ints) ==
  LET users == {ints[k].user_uid : k \in DOMAIN ints}
      items == {ints[k].listing_id : k \in DOMAIN ints}
      user_index_map == IndexMap(users)
      item_index_map == IndexMap(items)
  IN  [f EXCEPT !.user_index_map = user_index_map,
                !.item_index_map = item_index_map,
                !.user_item_matrix =
                   Some(user_item_scores(ints, 1, <<>>, user_index_map, item_index_map))]

\* ---- get_recommendations (recommender.py:315-364)
\* the elements of a set of numbers as an ascending list
RECURSIVE Ascending(_)
Ascending(S) ==
  IF S = {} THEN <<>>
  ELSE LET x == CHOOSE y \in S : \A z \in S : y <= z
       IN  <<x>> \o Ascending(S \ {x})

\* similar_users: the indices get_recommendations walks, np.argsort(...)[::-1][1:top_k+1]
SimilarUsers(f, user_uid, top_k) ==
  TopSimilar(Val(f.user_similarity_matrix)[f.user_index_map[user_uid]], top_k)

\* those of them it takes scores from: `if similarity <= 0: continue`
ScoringNeighbours(f, user_uid, top_k) ==
  LET user_similarities == Val(f.user_similarity_matrix)[f.user_index_map[user_uid]]
      similar_users == SimilarUsers(f, user_uid, top_k)
  IN  SelectSeq(similar_users, LAMBDA idx : SimSign(user_similarities[idx]) > 0)

\* the terms (listing_id, similarity * interaction_score) one similar user
\* adds, in item order: the items with a positive score whose listing id is
\* truthy and among the candidates.  Scores are in 1/1000.
TermsOf(f, similar_user_idx, similarity, candidate_listings) ==
  LET m == Val(f.user_item_matrix)
      listing_of(item_idx) == KeyOf(f.item_index_map, item_idx)
      taken == {i \in RowItems(m, similar_user_idx) :
                  /\ m[<<similar_user_idx, i>>] > 0
                  /\ listing_of(i) # 0
                  /\ listing_of(i) \in ToSet(candidate_listings)}
      order == Ascending(taken)
  IN  [k \in DOMAIN order |->
         <<listing_of(order[k]),
           SimScore(similarity) * m[<<similar_user_idx, order[k]>>]>>]

\* listing_scores[listing_id] += amount, on a dict kept in insertion order
AddScore(listing_scores, term) ==
  IF \E k \in DOMAIN listing_scores : listing_scores[k][1] = term[1]
  THEN [k \in DOMAIN listing_scores |->
          IF listing_scores[k][1] = term[1]
          THEN <<term[1], listing_scores[k][2] + term[2]>>
          ELSE listing_scores[k]]
  ELSE Append(listing_scores, term)

RECURSIVE AddScores(_, _, _)
AddScores(listing_scores, terms, k) ==
  IF k > Len(terms) THEN listing_scores
  ELSE AddScores(AddScore(listing_scores, terms[k]), terms, k + 1)

\* the loop over similar_users from position k on
RECURSIVE ListingScores(_, _, _, _, _)
ListingScores(f, neighbours, k, user_similarities, candidate_listings) ==
  IF k > Len(neighbours) THEN <<>>
  ELSE TermsOf(f, neighbours[k], user_similarities[neighbours[k]], candidate_listings)
         \o ListingScores(f, neighbours, k + 1, user_similarities, candidate_listings)

\* sorted(items, key=score, reverse=True): stable, ties keep insertion order
RECURSIVE SortedByScore(_)
SortedByScore(pairs) ==
  IF pairs = <<>> THEN <<>>
  ELSE LET last == pairs[Len(pairs)]
           before == SortedByScore(SubSeq(pairs, 1, Len(pairs) - 1))
           ahead == SelectSeq(before, LAMBDA q : q[2] >= last[2])
           behind == SelectSeq(before, LAMBDA q : q[2] < last[2])
       IN  ahead \o <<last>> \o behind

\* recommender.py:338-364: the scores of a user who has a row.  "raised"
\* when the similarity matrix is that of an older matrix of another size
\* (IndexError on the user's row or on a neighbour's row)
ScoreFromNeighbours(f, user_uid, candidate_listings, top_k) ==
  LET user_idx == f.user_index_map[user_uid]
      sim == Val(f.user_similarity_matrix)
      rows == {q[1] : q \in DOMAIN Val(f.user_item_matrix)}
  IN  IF user_idx \notin DOMAIN sim
      THEN [status |-> "raised", list |-> <<>>]
      ELSE LET neighbours == ScoringNeighbours(f, user_uid, top_k)
           IN  IF \E k \in DOMAIN neighbours : neighbours[k] \notin rows
               THEN [status |-> "raised", list |-> <<>>]
               ELSE [status |-> "ok",
                     list |-> SortedByScore(AddScores(<<>>,
                                ListingScores(f, neighbours, 1, sim[user_idx],
                                              candidate_listings), 1))]

\* get_recommendations without the cold-start test of recommender.py:335-336:
\* the lookup of an absent user is a KeyError
get_recommendations_NoColdStart(f, user_uid, candidate_listings, top_k) ==
  IF IsNone(f.user_item_matrix) \/ IsNone(f.user_similarity_matrix)
  THEN [status |-> "ok", list |-> <<>>]
  ELSE IF user_uid \notin DOMAIN f.user_index_map
  THEN [status |-> "raised", list |-> <<>>]
  ELSE ScoreFromNeighbours(f, user_uid, candidate_listings, top_k)

\* get_recommendations: [status |-> "ok", list |-> the (listing_id, score) pairs]
get_recommendations(f, user_uid, candidate_listings, top_k) ==
  IF IsNone(f.user_item_matrix) \/ IsNone(f.user_similarity_matrix)
  THEN [status |-> "ok", list |-> <<>>]
  ELSE IF user_uid \notin DOMAIN f.user_index_map
  THEN [status |-> "ok", list |-> <<>>]           \* cold start
  ELSE ScoreFromNeighbours(f, user_uid, candidate_listings, top_k)

\* ===================================================================
\* MLTrainingService (training.py)
\* ===================================================================
\* the number of rows in a sequence of runs
RECURSIVE RunsLen(_)
RunsLen(runs) == IF runs = <<>> THEN 0 ELSE Head(runs).count + RunsLen(Tail(runs))

\* row number k of a sequence of runs
RECURSIVE RunsAt(_, _)
RunsAt(runs, k) ==
  IF k <= Head(runs).count THEN Head(runs).row
  ELSE RunsAt(Tail(runs), k - Head(runs).count)

\* response.data: the rows of the runs as a Python list
Rows(runs) == [k \in 1..RunsLen(runs) |-> RunsAt(runs, k)]

\* .gte("interaction_time", since): the rows not older than since
SelectSince(runs, since) ==
  LET InWindow(run) == run.row.day >= since
  IN  SelectSeq(runs, InWindow)

\* insert(row)
AppendRow(runs, row) ==
  IF runs # <<>> /\ runs[Len(runs)].row = row
  THEN [runs EXCEPT ![Len(runs)].count = @ + 1]
  ELSE Append(runs, [row |-> row, count |-> 1])

\* The rows that the inner loop of compute_user_similarity_matrix upserts
\* for one user, from neighbour k of the list top on.  user_a_uid is the loop
\* variable of the OUTER loop, which the swap at training.py:90-91 assigns.
RECURSIVE UpsertRequestsFrom(_, _, _, _, _)
UpsertRequestsFrom(f, top, k, user_a_uid, user_a_idx) ==
  IF k > Len(top) THEN <<>>
  ELSE LET similar_idx == top[k]
           m == Val(f.user_item_matrix)
           similarity_score == Val(f.user_similarity_matrix)[user_a_idx][similar_idx]
       IN  IF AtMostThreshold(similarity_score)
           THEN UpsertRequestsFrom(f, top, k + 1, user_a_uid, user_a_idx)
           ELSE LET found == KeyOf(f.user_index_map, similar_idx)
                    swap == user_a_uid > found
                    a == IF swap THEN found ELSE user_a_uid
                    b == IF swap THEN user_a_uid ELSE found
                    common_count == Cardinality(RowItems(m, user_a_idx)
                                                  \cap RowItems(m, similar_idx))
                IN  << [user_a_uid |-> a, user_b_uid |-> b,
                        similarity_score |-> SimScore(similarity_score),
                        interaction_count |-> common_count] >>
                    \o UpsertRequestsFrom(f, top, k + 1, a, user_a_idx)

\* the upserts of one iteration of the outer loop: the user with index user_a_idx
UpsertRequests(f, user_a_idx) ==
  UpsertRequestsFrom(f,
    TopSimilar(Val(f.user_similarity_matrix)[user_a_idx], TopNeighbours),
    1, KeyOf(f.user_index_map, user_a_idx), user_a_idx)

\* a store that replaces the table by the rows of a run: the first request
\* of an iteration clears what was persisted before
RECURSIVE ApplyUpserts_Replacing(_, _, _, _, _)
ApplyUpserts_Replacing(table, reqs, k, failed, at) ==
  IF k > Len(reqs) THEN table
  ELSE LET r == reqs[k]
           key == <<r.user_a_uid, r.user_b_uid>>
           row == [similarity_score |-> r.similarity_score,
                   interaction_count |-> r.interaction_count,
                   last_computed |-> at]
           kept == IF k = 1 THEN <<>> ELSE table
           next == IF k \in failed \/ r.user_a_uid >= r.user_b_uid THEN kept
                   ELSE [x \in DOMAIN kept \cup {key} |->
                           IF x = key THEN row ELSE kept[x]]
       IN  ApplyUpserts_Replacing(next, reqs, k + 1, failed, at)

\* the table after the upserts reqs, of which those at the positions failed
\* raise (a failed request, or a row the table's user_a < user_b constraint
\* rejects); the except clause logs and the loop goes on
RECURSIVE ApplyUpserts(_, _, _, _, _)
ApplyUpserts(table, reqs, k, failed, at) ==
  IF k > Len(reqs) THEN table
  ELSE LET r == reqs[k]
           key == <<r.user_a_uid, r.user_b_uid>>
           row == [similarity_score |-> r.similarity_score,
                   interaction_count |-> r.interaction_count,
                   last_computed |-> at]
           next == IF k \in failed \/ r.user_a_uid >= r.user_b_uid THEN table
                   ELSE [x \in DOMAIN table \cup {key} |->
                           IF x = key THEN row ELSE table[x]]
       IN  ApplyUpserts(next, reqs, k + 1, failed, at)

\* the engagement_score and trending_score of one metrics row, in 1/10:
\* Raise when a counter is null (TypeError)
EngagementScoreOf(metric) ==
  IF \E c \in {"apply_count", "save_count", "share_count", "click_count",
               "view_count", "dismiss_count"} : IsNone(metric[c])
  THEN Raise
  ELSE Max(0, 10 * EngagementRaw(Val(metric.view_count), Val(metric.click_count),
                                 Val(metric.apply_count), Val(metric.save_count),
                                 Val(metric.share_count), Val(metric.dismiss_count)))

\* len(recent_interactions.data): interactions of the listing in the last 24 hours
RecentCount(runs, listing_id, at) ==
  LET Recent(run) == run.row.listing_id = listing_id
                       /\ run.row.day >= at - TrendingDays
  IN  RunsLen(SelectSeq(runs, Recent))

TrendingScoreOf(engagement_score, recent_count) ==
  (engagement_score * 3) \div 10 + recent_count * 100

\* an upsert of the whole row that the run read, with the new scores
UpdateMetrics_WholeRow(table, listing_id, metric, engagement_score, trending_score, at) ==
  IF listing_id \notin DOMAIN table THEN table
  ELSE [table EXCEPT ![listing_id] =
          [metric EXCEPT !.engagement_score = engagement_score,
                         !.trending_score = trending_score,
                         !.last_updated = at]]

\* training.py:162-167: .update({engagement_score, trending_score,
\* last_updated}).eq("listing_id", listing_id) sets three columns of the
\* stored row; metric is the row as the run read it
UpdateMetrics(table, listing_id, metric, engagement_score, trending_score, at) ==
  IF listing_id \notin DOMAIN table THEN table
  ELSE [table EXCEPT ![listing_id] =
          [@ EXCEPT !.engagement_score = engagement_score,
                    !.trending_score = trending_score,
                    !.last_updated = at]]

\* ------------------------------------------------------------ the job runs
\* bounds of the training model
MaxEvents == 1      \* interactions the event path appends beyond MinInteractions
MaxFaults == 1      \* store requests that fail

Jobs == <<"daily_training", "hourly_updates", "frequent_updates">>

FreshFilter ==
  [user_item_matrix |-> Null, user_similarity_matrix |-> Null,
   user_index_map |-> <<>>, item_index_map |-> <<>>]

IdleDaily == [pc |-> "idle", via |-> "none", i |-> 0]
IdleEng   == [pc |-> "idle", via |-> "none", todo |-> <<>>, i |-> 0,
              written |-> {}, failed |-> {}]
IdleFreq  == [pc |-> "idle", via |-> "none"]

\* who runs a job: the scheduler's wrapper, the task runner of training.py
\* (run_daily_training), the admin trigger, or a direct caller of one
\* training method.  The first three run the daily job's two methods in turn
DailyRunners == {"wrapper", "task", "trigger"}

\* How a run ends for its caller.  A job wrapper and the task runner catch
\* every Exception and log it; the admin trigger answers 500 and a direct
\* caller of the training method gets the exception.  (The first variant is
\* a wrapper without its except clause.)
Ended_Propagates(job, via, exception) ==
  outcome' = [job |-> job,
              result |-> IF ~exception THEN "returned" ELSE "raised"]

Ended(job, via, exception) ==
  outcome' = [job |-> job,
              result |-> IF ~exception THEN "returned"
                         ELSE IF via \in {"wrapper", "task"} THEN "caught"
                         ELSE "raised"]

\* ---- compute_user_similarity_matrix, update_user_feature_vectors
\* the end of compute_user_similarity_matrix: a daily run goes on to
\* update_user_feature_vectors, a direct call returns
SimReturns ==
  IF daily_run.via \in DailyRunners
  THEN /\ daily_run' = [daily_run EXCEPT !.pc = "fv"]
       /\ UNCHANGED outcome
  ELSE /\ daily_run' = [daily_run EXCEPT !.pc = "idle"]
       /\ Ended("daily_training", daily_run.via, FALSE)

\* a variant in which only the first method is inside the try: after its
\* exception the run goes on to the second
DailyRaises_GoesOn ==
  IF daily_run.pc = "fv"
  THEN /\ daily_run' = [daily_run EXCEPT !.pc = "idle"]
       /\ Ended("daily_training", daily_run.via, TRUE)
  ELSE /\ daily_run' = [daily_run EXCEPT !.pc = "fv"]
       /\ UNCHANGED outcome

DailyRaises ==
  /\ daily_run' = [daily_run EXCEPT !.pc = "idle"]
  /\ Ended("daily_training", daily_run.via, TRUE)

\* len(interactions) < 100, with the off-by-one variant of the comparison
TooFew_Inclusive(read) == Len(read) <= MinInteractions

TooFew(read) == Len(read) < MinInteractions

\* training.py:36-56: read the 90-day window; with too few interactions
\* return, otherwise build the matrix from what was read
SimRead ==
  /\ daily_run.pc = "sim_read"
  /\ \/ /\ faults_left > 0                      \* the read fails
        /\ faults_left' = faults_left - 1
        /\ DailyRaises
        /\ UNCHANGED cf
     \/ /\ \E read \in {Rows(SelectSince(interactions, now - WindowDays))} :
             IF TooFew(read)
             THEN SimReturns /\ UNCHANGED cf
             ELSE /\ cf' = build_user_item_matrix(cf, read)
                  /\ daily_run' = [daily_run EXCEPT !.pc = "sim_compute"]
                  /\ UNCHANGED outcome
        /\ UNCHANGED faults_left
  /\ UNCHANGED <<now, rankVars, reqVars, schedVars, eng_run, freq_run,
                 interactions, metrics, sim_rows, feature_vectors, view_fresh>>

\* training.py:60
SimCompute ==
  /\ daily_run.pc = "sim_compute"
  /\ cf' = Val(calculate_user_similarity(cf))
  /\ daily_run' = [daily_run EXCEPT !.pc = "sim_store", !.i = 0]
  /\ UNCHANGED <<now, rankVars, reqVars, schedVars, eng_run, freq_run, outcome, storeVars>>

\* training.py:68-109: one iteration of the outer loop; each upsert of the
\* inner loop may fail
SimStore ==
  /\ daily_run.pc = "sim_store"
  /\ \E reqs \in {UpsertRequests(cf, daily_run.i)} :
       \E failed \in SUBSET (1..Len(reqs)) :
         /\ Cardinality(failed) <= faults_left
         /\ faults_left' = faults_left - Cardinality(failed)
         /\ sim_rows' = ApplyUpserts(sim_rows, reqs, 1, failed, now)
  /\ IF daily_run.i + 1 < Cardinality(DOMAIN cf.user_index_map)
     THEN /\ daily_run' = [daily_run EXCEPT !.i = daily_run.i + 1]
          /\ UNCHANGED outcome
     ELSE SimReturns
  /\ UNCHANGED <<now, rankVars, reqVars, schedVars, eng_run, freq_run, cf,
                 interactions, metrics, feature_vectors, view_fresh>>

\* the row update_user_feature_vectors stores for a user (the tag and
\* compensation statistics of the joined listings are left out); the
\* activity level is in 1/1000
FeatureVectorOf(runs, user_uid, at) ==
  LET Mine(run) == run.row.user_uid = user_uid
      interaction_count == RunsLen(SelectSeq(runs, Mine))
  IN  [activity_level |-> Min(10 * interaction_count, 1000),
       last_computed |-> at]

\* training.py:173-275: update_user_feature_vectors; a failure inside the
\* per-user try skips that user, a failure of the first read raises
FvRun ==
  /\ daily_run.pc = "fv"
  /\ \/ /\ faults_left > 0
        /\ faults_left' = faults_left - 1
        /\ DailyRaises
        /\ UNCHANGED feature_vectors
     \/ LET read == SelectSince(interactions, now - WindowDays)
            unique_users == {read[k].row.user_uid : k \in DOMAIN read}
        IN  \E skipped \in SUBSET unique_users :
              /\ Cardinality(skipped) <= faults_left
              /\ faults_left' = faults_left - Cardinality(skipped)
              /\ feature_vectors' =
                   [u \in DOMAIN feature_vectors \cup (unique_users \ skipped) |->
                      IF u \in unique_users \ skipped
                      THEN FeatureVectorOf(read, u, now) ELSE feature_vectors[u]]
              /\ daily_run' = [daily_run EXCEPT !.pc = "idle"]
              /\ Ended("daily_training", daily_run.via, FALSE)
  /\ UNCHANGED <<now, rankVars, reqVars, schedVars, eng_run, freq_run, cf,
                 interactions, metrics, sim_rows, view_fresh>>

\* ---- update_engagement_scores
EngRaises(listing_ids) ==
  /\ eng_run' = [eng_run EXCEPT !.pc = "idle",
                                !.failed = eng_run.failed \cup listing_ids]
  /\ Ended("hourly_updates", eng_run.via, TRUE)

\* the rows of a table in key order
RECURSIVE RowsOf(_, _)
RowsOf(table, keys) ==
  IF keys = {} THEN <<>>
  ELSE LET k == CHOOSE x \in keys : \A y \in keys : x <= y
       IN  <<table[k]>> \o RowsOf(table, keys \ {k})

\* training.py:121-130: read every metrics row
EngRead ==
  /\ eng_run.pc = "read"
  /\ \/ /\ faults_left > 0
        /\ faults_left' = faults_left - 1
        /\ EngRaises({})
     \/ /\ UNCHANGED faults_left
        /\ IF DOMAIN metrics = {}
           THEN /\ eng_run' = [eng_run EXCEPT !.pc = "idle"]
                /\ Ended("hourly_updates", eng_run.via, FALSE)
           ELSE /\ eng_run' = [eng_run EXCEPT !.pc = "loop", !.i = 1,
                                 !.todo = RowsOf(metrics, DOMAIN metrics)]
                /\ UNCHANGED outcome
  /\ UNCHANGED <<now, rankVars, reqVars, schedVars, daily_run, freq_run, cf,
                 interactions, metrics, sim_rows, feature_vectors, view_fresh>>

\* training.py:132-169: one iteration of the loop over the rows read.  The
\* arithmetic and the read of the recent interactions are outside the try,
\* the update is inside it.
EngStep ==
  /\ eng_run.pc = "loop"
  /\ LET metric == eng_run.todo[eng_run.i]
         listing_id == metric.listing_id
         engagement_score == EngagementScoreOf(metric)
         trending_score == TrendingScoreOf(engagement_score,
                                           RecentCount(interactions, listing_id, now))
         goes_on(wrote) ==
           LET written == IF wrote THEN eng_run.written \cup {listing_id}
                          ELSE eng_run.written
               failed == IF wrote THEN eng_run.failed
                         ELSE eng_run.failed \cup {listing_id}
           IN  IF eng_run.i < Len(eng_run.todo)
               THEN /\ eng_run' = [eng_run EXCEPT !.i = eng_run.i + 1,
                                     !.written = written, !.failed = failed]
                    /\ UNCHANGED outcome
               ELSE /\ eng_run' = [eng_run EXCEPT !.pc = "idle",
                                     !.written = written, !.failed = failed]
                    /\ Ended("hourly_updates", eng_run.via, FALSE)
     IN  IF engagement_score = Raise
         THEN /\ EngRaises({listing_id})                \* TypeError on a null counter
              /\ UNCHANGED <<metrics, view_fresh, faults_left>>
         ELSE \/ /\ faults_left > 0                     \* the read of recent rows fails
                 /\ faults_left' = faults_left - 1
                 /\ EngRaises({listing_id})
                 /\ UNCHANGED <<metrics, view_fresh>>
              \/ /\ faults_left > 0                     \* the update fails: logged
                 /\ faults_left' = faults_left - 1
                 /\ UNCHANGED <<metrics, view_fresh>>
                 /\ goes_on(FALSE)
              \/ /\ UNCHANGED faults_left
                 /\ metrics' = UpdateMetrics(metrics, listing_id, metric,
                                             engagement_score, trending_score, now)
                 /\ view_fresh' = FALSE
                 /\ goes_on(TRUE)
  /\ UNCHANGED <<now, rankVars, reqVars, schedVars, daily_run, freq_run, cf,
                 interactions, sim_rows, feature_vectors>>

\* ---- refresh_trending_listings_view: the rpc is inside a try, the call of
\* get_supabase_client() before it is not (it raises ValueError without
\* credentials)
FreqRun ==
  /\ freq_run.pc = "rpc"
  /\ \/ /\ faults_left > 0                      \* no client: raises
        /\ faults_left' = faults_left - 1
        /\ UNCHANGED view_fresh
        /\ Ended("frequent_updates", freq_run.via, TRUE)
     \/ /\ faults_left > 0                      \* the rpc fails: logged
        /\ faults_left' = faults_left - 1
        /\ UNCHANGED view_fresh
        /\ Ended("frequent_updates", freq_run.via, FALSE)
     \/ /\ UNCHANGED faults_left
        /\ view_fresh' = TRUE
        /\ Ended("frequent_updates", freq_run.via, FALSE)
  /\ freq_run' = [freq_run EXCEPT !.pc = "idle"]
  /\ UNCHANGED <<now, rankVars, reqVars, schedVars, daily_run, eng_run, cf,
                 interactions, metrics, sim_rows, feature_vectors>>

\* ===================================================================
\* MLSchedulerService (scheduler.py)
\* ===================================================================
\* scheduler.add_job(..., id=id, replace_existing=True): a job with the same
\* id is replaced, never added twice
AddJob(jobs, id) ==
  IF \E k \in DOMAIN jobs : jobs[k] = id
  THEN jobs
  ELSE Append(jobs, id)

\* BackgroundScheduler.start(): SchedulerAlreadyRunningError unless stopped
SchedulerStart(state) == IF state = "stopped" THEN "running" ELSE "raises"

\* start(), first without the is_running guard of scheduler.py:58-60
Start_Unguarded ==
  /\ LET added == AddJob(AddJob(AddJob(sched_jobs, Jobs[1]), Jobs[2]), Jobs[3])
         started == SchedulerStart(sched_state)
     IN  IF started = "raises"
         THEN /\ last_call' = [op |-> "start", result |-> "raised"]
              /\ sched_jobs' = added
              /\ UNCHANGED <<is_running, sched_state>>
         ELSE /\ last_call' = [op |-> "start", result |-> "done"]
              /\ sched_jobs' = added
              /\ sched_state' = started
              /\ is_running' = TRUE
  /\ UNCHANGED <<now, rankVars, reqVars, runVars, cf, storeVars>>

\* start()
Start ==
  /\ IF is_running
     THEN /\ last_call' = [op |-> "start", result |-> "warned"]
          /\ UNCHANGED <<is_running, sched_state, sched_jobs>>
     ELSE LET added == AddJob(AddJob(AddJob(sched_jobs, Jobs[1]), Jobs[2]), Jobs[3])
              started == SchedulerStart(sched_state)
          IN  IF started = "raises"
              THEN /\ last_call' = [op |-> "start", result |-> "raised"]
                   /\ sched_jobs' = added
                   /\ UNCHANGED <<is_running, sched_state>>
              ELSE /\ last_call' = [op |-> "start", result |-> "done"]
                   /\ sched_jobs' = added
                   /\ sched_state' = started
                   /\ is_running' = TRUE
  /\ UNCHANGED <<now, rankVars, reqVars, runVars, cf, storeVars>>

\* stop() on a stopped service: a warning
StopIdle ==
  /\ ~is_running
  /\ last_call' = [op |-> "stop", result |-> "warned"]
  /\ UNCHANGED <<is_running, sched_state, sched_jobs>>
  /\ UNCHANGED <<now, rankVars, reqVars, runVars, cf, storeVars>>

\* stop() on a running service, first half: scheduler.shutdown() stops the
\* timers, then waits for the jobs that are running (wait=True)
StopBegin ==
  /\ is_running
  /\ sched_state = "running"
  /\ sched_state' = "stopping"
  /\ last_call' = [op |-> "stop", result |-> "waiting"]
  /\ UNCHANGED <<is_running, sched_jobs>>
  /\ UNCHANGED <<now, rankVars, reqVars, runVars, cf, storeVars>>

WrapperRuns ==
  {j \in {1, 2, 3} : <<daily_run, eng_run, freq_run>>[j].via = "wrapper"
                      /\ <<daily_run, eng_run, freq_run>>[j].pc # "idle"}

\* stop(), second half, first without the assignment of scheduler.py:107
StopEnd_KeepsRunning ==
  /\ sched_state = "stopping"
  /\ WrapperRuns = {}
  /\ sched_state' = "stopped"
  /\ sched_jobs' = <<>>
  /\ last_call' = [op |-> "stop", result |-> "done"]
  /\ UNCHANGED <<is_running, now, rankVars, reqVars, runVars, cf, storeVars>>

\* stop(), second half: no job is running any more; the job store is shut
\* down (the memory store drops its jobs) and stop() returns
StopEnd ==
  /\ sched_state = "stopping"
  /\ WrapperRuns = {}
  /\ sched_state' = "stopped"
  /\ sched_jobs' = <<>>
  /\ is_running' = FALSE
  /\ last_call' = [op |-> "stop", result |-> "done"]
  /\ UNCHANGED <<now, rankVars, reqVars, runVars, cf, storeVars>>

get_status ==
  IF ~is_running
  THEN [status |-> "stopped", jobs |-> <<>>]
  ELSE [status |-> "running", jobs |-> sched_jobs]

\* a trigger of the running scheduler fires job id: the executor calls its
\* wrapper, unless an instance of the job is still running (max_instances 1)
CanFire_Unstopped(id) == TRUE      \* timers that a shutdown does not stop

CanFire(id) ==
  /\ sched_state = "running"
  /\ \E k \in DOMAIN sched_jobs : sched_jobs[k] = id

BeginDaily(via, first) ==
  /\ daily_run.pc = "idle"
  /\ daily_run' = [IdleDaily EXCEPT !.pc = first, !.via = via]
  /\ UNCHANGED <<now, rankVars, reqVars, schedVars, eng_run, freq_run, outcome, cf, storeVars>>

BeginEng(via) ==
  /\ eng_run.pc = "idle"
  /\ eng_run' = [IdleEng EXCEPT !.pc = "read", !.via = via]
  /\ UNCHANGED <<now, rankVars, reqVars, schedVars, daily_run, freq_run, outcome, cf, storeVars>>

BeginFreq(via) ==
  /\ freq_run.pc = "idle"
  /\ freq_run' = [IdleFreq EXCEPT !.pc = "rpc", !.via = via]
  /\ UNCHANGED <<now, rankVars, reqVars, schedVars, daily_run, eng_run, outcome, cf, storeVars>>

\* _run_daily_tasks, _run_hourly_tasks, _run_frequent_tasks are entered
FireDaily    == CanFire("daily_training") /\ BeginDaily("wrapper", "sim_read")
FireHourly   == CanFire("hourly_updates") /\ BeginEng("wrapper")
FireFrequent == CanFire("frequent_updates") /\ BeginFreq("wrapper")

\* the training methods called directly (the admin trigger, the command
\* line, a test), one call at a time
NoRun == daily_run.pc = "idle" /\ eng_run.pc = "idle" /\ freq_run.pc = "idle"

\* run_daily_training() and the admin trigger with task_type "daily": each
\* makes an MLTrainingService of its own, with a fresh filter, and runs the
\* two daily methods on it (cf is the filter of the service that runs)
BeginDailyOwn(via) ==
  /\ daily_run' = [IdleDaily EXCEPT !.pc = "sim_read", !.via = via]
  /\ cf' = FreshFilter
  /\ UNCHANGED <<now, rankVars, reqVars, schedVars, eng_run, freq_run, outcome, storeVars>>

RunDailyTraining == NoRun /\ BeginDailyOwn("task")
TriggerDaily     == NoRun /\ BeginDailyOwn("trigger")

CallSimilarity     == NoRun /\ BeginDaily("direct", "sim_read")
CallFeatureVectors == NoRun /\ BeginDaily("direct", "fv")
CallEngagement     == NoRun /\ BeginEng("direct")
CallRefresh        == NoRun /\ BeginFreq("direct")

\* the events of the event path so far, beyond the MinInteractions rows a
\* store starts with: the rows appended and the clicks counted
EventsSoFar ==
  RunsLen(interactions) - MinInteractions
    + SumOver([l \in DOMAIN metrics |->
                 IF IsNone(metrics[l].click_count) THEN 0 ELSE Val(metrics[l].click_count)],
              DOMAIN metrics)

\* the event path appends an interaction
RecordInteraction ==
  /\ EventsSoFar < MaxEvents
  /\ \E e \in {<<1, 2, "apply">>, <<3, 1, "dismiss">>} :
       interactions' = AppendRow(interactions,
         [user_uid |-> e[1], listing_id |-> e[2], interaction_type |-> e[3],
          day |-> now])
  /\ UNCHANGED <<now, rankVars, reqVars, schedVars, runVars, cf,
                 metrics, sim_rows, feature_vectors, view_fresh, faults_left>>

\* the external event path counts an event in a raw counter of a listing's
\* metrics row (its code is not part of the server: the spec names it as the
\* owner of the six counters)
CountEvent ==
  /\ \E l \in DOMAIN metrics :
       /\ ~IsNone(metrics[l].click_count)
       /\ EventsSoFar < MaxEvents
       /\ metrics' = [metrics EXCEPT ![l].click_count = Some(Val(@) + 1)]
  /\ UNCHANGED <<now, rankVars, reqVars, schedVars, runVars, cf,
                 interactions, sim_rows, feature_vectors, view_fresh, faults_left>>

\* ------------------------------------------------------------ initial states
Interaction(u, l, kind, day) ==
  [user_uid |-> u, listing_id |-> l, interaction_type |-> kind, day |-> day]

\* a busy user whose views and dismissals of one listing fill the table up;
\* they are WindowDays old, the oldest the window of day 0 still holds
Filler(kind) == Interaction(9, 9, kind, -WindowDays)

Histories ==
  << \* users 1 and 2 did the same, user 3 something else
    << Interaction(1, 1, "apply", 0), Interaction(2, 1, "apply", 0),
       Interaction(3, 2, "view", 0) >>,
    \* mixed weights, a dismissal, and a listing shared with the busy user
    << Interaction(1, 1, "apply", 0), Interaction(1, 2, "view", 0),
       Interaction(2, 1, "click", 0), Interaction(2, 2, "dismiss", 0),
       Interaction(3, 2, "save", 0), Interaction(3, 9, "view", 0) >>,
    \* an interaction older than the window and a kind without a weight
    << Interaction(1, 1, "apply", -100), Interaction(2, 1, "view", 0),
       Interaction(1, 1, "like", 0), Interaction(1, 2, "save", 0),
       Interaction(2, 2, "share", 0) >> >>

\* the table holding history h, filled up to n rows
FilledTo(h, n) ==
  LET more == n - Len(h)
      dismissals == (more - 1) \div 6
  IN  [k \in DOMAIN h |-> [row |-> h[k], count |-> 1]]
        \o (IF more <= 0 THEN <<>>
            ELSE <<[row |-> Filler("view"), count |-> more - dismissals]>>)
        \o (IF more <= 6 THEN <<>>
            ELSE <<[row |-> Filler("dismiss"), count |-> dismissals]>>)

MetricsRow(l, views, applies, dismisses) ==
  [listing_id |-> l, view_count |-> views, click_count |-> Some(0),
   apply_count |-> applies, save_count |-> Some(0), share_count |-> Some(0),
   dismiss_count |-> dismisses,
   engagement_score |-> 0, trending_score |-> 0, last_updated |-> -1]

MetricsTables ==
  << (1 :> MetricsRow(1, Some(3), Some(1), Some(0))
       @@ 2 :> MetricsRow(2, Some(1), Some(0), Some(2))),
    (1 :> MetricsRow(1, Null, Some(1), Some(0))          \* a null counter
       @@ 2 :> MetricsRow(2, Some(4), Some(2), Some(0))),
    (2 :> MetricsRow(2, Some(2), Some(0), Some(0))) >>

SchedInit ==
  /\ is_running = FALSE
  /\ sched_state = "stopped"
  /\ sched_jobs = <<>>
  /\ last_call = [op |-> "none", result |-> "none"]

RunsInit ==
  /\ daily_run = IdleDaily
  /\ eng_run = IdleEng
  /\ freq_run = IdleFreq
  /\ outcome = [job |-> "none", result |-> "none"]
  /\ cf = FreshFilter

\* the stores of the given numbers, filled to the given sizes
StoreInit(stores, sizes) ==
  /\ \E k \in stores, n \in sizes :
       /\ interactions = FilledTo(Histories[k], n)
       /\ metrics = MetricsTables[k]
  /\ sim_rows = <<>>
  /\ feature_vectors = <<>>
  /\ view_fresh = FALSE
  /\ faults_left = MaxFaults

\* an empty store
StoreIdle ==
  /\ interactions = <<>>
  /\ metrics = <<>>
  /\ sim_rows = <<>>
  /\ feature_vectors = <<>>
  /\ view_fresh = FALSE
  /\ faults_left = 0

RankIdle ==
  /\ rk_args = [user_uid |-> 1, listings |-> <<>>, user_data |-> <<>>, top_n |-> Null]
  /\ rk_result = NoResult
  /\ rk_prev = NoResult
  /\ rk_at = 0

\* ===================================================================
\* A CollaborativeFilter called directly (train_with_sample_data.py, a test)
\* ===================================================================
MaxLen == 3            \* longest interaction list handed to build_user_item_matrix
DefaultTopK == 10      \* get_recommendations(..., top_k=10)

\* the rows of user_interactions the lists are made of: users 1 and 2 save
\* listing 1, user 1 saved it the day before too and also dismisses it (a
\* save and a dismissal cancel), a kind without a weight, an application,
\* and user 2 dismisses listing 2
FilterTable ==
  << Interaction(1, 1, "save", -1), Interaction(1, 1, "save", 0),
     Interaction(1, 1, "dismiss", 0), Interaction(2, 1, "save", 0),
     Interaction(3, 2, "like", 0), Interaction(2, 2, "apply", 0),
     Interaction(2, 2, "dismiss", 0) >>

FilterRows == ToSet(FilterTable)

\* a list that holds rows of the table, each once, in the table's order
InTableOrder(l) ==
  \A i, j \in DOMAIN l :
    i < j => \E a, b \in DOMAIN FilterTable :
               a < b /\ FilterTable[a] = l[i] /\ FilterTable[b] = l[j]

\* the non-empty lists of at most n rows
RECURSIVE InteractionLists(_)
InteractionLists(n) ==
  IF n = 1 THEN {<<r>> : r \in FilterRows}
  ELSE LET shorter == InteractionLists(n - 1)
       IN  shorter \cup
           { Append(l, r) : l \in {t \in shorter : Len(t) = n - 1},
                            r \in FilterRows }

\* the rearrangements of a list
Rearrangements(l) ==
  { [i \in DOMAIN l |-> l[p[i]]] :
      p \in {q \in [DOMAIN l -> DOMAIN l] : \A i, j \in DOMAIN l : i # j => q[i] # q[j]} }

FilterUsers == {1, 2, 3, 4}            \* user 4 never interacts
CandidateIds == {<<1, 2>>, <<2>>}
TopKs == {1, DefaultTopK}

NoCall == [op |-> "none", ints |-> <<>>, user_uid |-> 0, candidate_listings |-> <<>>,
           top_k |-> 0, result |-> [status |-> "none", list |-> <<>>]]

\* build_user_item_matrix(ints), with the caller's list in some order
CfBuild ==
  /\ \E ints \in Rearrangements(cf_input) :
       /\ cf' = BuildMatrix(cf, ints)
       /\ cf_call' = [NoCall EXCEPT !.op = "build", !.ints = ints,
                                    !.result = [status |-> "ok", list |-> <<>>]]
  /\ UNCHANGED <<now, rankVars, cf_input, feed_call, impressions, cb_call,
                 schedVars, runVars, storeVars>>

\* build_user_item_matrix on a filter that was built before, with the list
\* the caller holds later: the first rows of the table have left it
CfRebuild ==
  /\ ~IsNone(cf.user_item_matrix)
  /\ \E n \in 2..Len(cf_input) :
       LET ints == SubSeq(cf_input, n, Len(cf_input))
       IN  /\ cf' = BuildMatrix(cf, ints)
           /\ cf_call' = [NoCall EXCEPT !.op = "rebuild", !.ints = ints,
                                        !.result = [status |-> "ok", list |-> <<>>]]
  /\ UNCHANGED <<now, rankVars, cf_input, feed_call, impressions, cb_call,
                 schedVars, runVars, storeVars>>

\* calculate_user_similarity()
CfSimilarity ==
  /\ LET r == calculate_user_similarity(cf)
     IN  IF r = Failed
         THEN /\ cf_call' = [NoCall EXCEPT !.op = "similarity",
                               !.result = [status |-> "raised", list |-> <<>>]]
              /\ UNCHANGED cf
         ELSE /\ cf_call' = [NoCall EXCEPT !.op = "similarity",
                               !.result = [status |-> "ok", list |-> <<>>]]
              /\ cf' = Val(r)
  /\ UNCHANGED <<now, rankVars, cf_input, feed_call, impressions, cb_call,
                 schedVars, runVars, storeVars>>

\* get_recommendations(user_uid, candidate_listings, top_k)
CfRecommend ==
  /\ \E user_uid \in FilterUsers, candidate_listings \in CandidateIds, top_k \in TopKs :
       cf_call' = [NoCall EXCEPT !.op = "recommend", !.user_uid = user_uid,
                     !.candidate_listings = candidate_listings, !.top_k = top_k,
                     !.result = get_recommendations(cf, user_uid, candidate_listings, top_k)]
  /\ UNCHANGED <<now, rankVars, cf_input, feed_call, impressions, cb_call,
                 schedVars, runVars, cf, storeVars>>

FilterIdle ==
  /\ cf_input = <<>>
  /\ cf_call = NoCall

\* ===================================================================
\* FeedCRUD.get_personalized_feed (crud/feed.py)
\* ===================================================================
MaxLimit  == 2         \* largest limit of a feed request (the endpoint: 1..100)
MaxOffset == 1         \* largest offset of a feed request (the endpoint: >= 0)

\* s[a:b] of a Python list, 0 <= a <= b
Slice(s, a, b) == SubSeq(s, a + 1, Min(b, Len(s)))

\* the user's profile and preferred tags, as merged into user_data
FeedUserData ==
  [latitude |-> Some(1), longitude |-> Some(2), preferred_tags |-> Some(<<1>>),
   max_distance_km |-> Some(50)]

\* user_preferences rows: none (personalization is on by default), one that
\* turns it off, one that blocks a tag, one that blocks a user
FeedPrefs ==
  { <<>>, [personalization_enabled |-> FALSE], [blocked_tags |-> {2}],
    [blocked_users |-> {3}] }

\* the poster of a listing of the table: listing 1 is the requesting user's
\* own, listing 7 is user 3's
PosterOf(id) == IF id = 1 THEN 1 ELSE IF id = 7 THEN 3 ELSE 2

WithPoster(listing) == ("poster_uid" :> PosterOf(listing.id)) @@ listing

\* crud/feed.py:289-313: the open listings that are not the user's own, at
\* most limit * 3 of them
QueryCandidates(listings, user_uid, limit) ==
  Take(SelectSeq(listings, LAMBDA l : l.poster_uid # user_uid), limit * 3)

AppliedIds == {2}      \* the listings the user applied to

\* the blocked-tags filter: set(l.get("tags", [])) is a TypeError for tags None
BlockedTagsRaises(candidates, user_prefs) ==
  /\ "blocked_tags" \in DOMAIN user_prefs
  /\ \E k \in DOMAIN candidates : IsNone(Get(candidates[k], "tags", Some(<<>>)))

\* a variant without the blocked-users filter
FilterCandidates_Unblocked(candidates, user_uid, user_prefs, exclude_applied, exclude_seen, views, at) ==
  LET seen_ids == {views[k].row.listing_id : k \in
                     {j \in DOMAIN views : /\ views[j].row.user_uid = user_uid
                                           /\ views[j].row.interaction_type = "view"
                                           /\ views[j].row.day >= at - 1}}
      Shown(l) ==
        /\ ~(exclude_applied /\ l.id \in AppliedIds)
        /\ ~(exclude_seen /\ l.id \in seen_ids)
        /\ ~("blocked_tags" \in DOMAIN user_prefs
              /\ ToSet(Val(Get(l, "tags", Some(<<>>)))) \cap user_prefs.blocked_tags # {})
  IN  SelectSeq(candidates, Shown)

\* crud/feed.py:315-357: the candidates after the applied, seen,
\* blocked-tags and blocked-users filters
FilterCandidates(candidates, user_uid, user_prefs, exclude_applied, exclude_seen, views, at) ==
  LET seen_ids == {views[k].row.listing_id : k \in
                     {j \in DOMAIN views : /\ views[j].row.user_uid = user_uid
                                           /\ views[j].row.interaction_type = "view"
                                           /\ views[j].row.day >= at - 1}}
      Shown(l) ==
        /\ ~(exclude_applied /\ l.id \in AppliedIds)
        /\ ~(exclude_seen /\ l.id \in seen_ids)
        /\ ~("blocked_tags" \in DOMAIN user_prefs
              /\ ToSet(Val(Get(l, "tags", Some(<<>>)))) \cap user_prefs.blocked_tags # {})
        /\ ~("blocked_users" \in DOMAIN user_prefs
              /\ l.poster_uid \in user_prefs.blocked_users)
  IN  SelectSeq(candidates, Shown)

\* the key of the fallback sort (in 1/10): engagement_score * 0.5 minus the
\* age in days; Raise when created_at is missing or null (KeyError,
\* AttributeError) or parses to an aware datetime (utcnow() - aware: TypeError)
FallbackKey(listing, utcnow) ==
  IF "created_at" \notin DOMAIN listing THEN Raise
  ELSE IF IsNone(listing.created_at) THEN Raise
  ELSE IF Val(listing.created_at).tz = "aware" THEN Raise
  ELSE 5 * Get(listing, "engagement_score", 0)
         - 10 * (utcnow - Val(listing.created_at).day) + 1000

\* crud/feed.py:376-394: the ranking of the candidates, cut to limit + offset
RankCandidates(user_uid, candidates, user_prefs, limit, offset, utcnow) ==
  IF Get(user_prefs, "personalization_enabled", TRUE)
  THEN rank_listings(user_uid, candidates, FeedUserData, Some(limit + offset), utcnow)
  ELSE IF \E k \in DOMAIN candidates : FallbackKey(candidates[k], utcnow) = Raise
  THEN [status |-> "raised", list |-> <<>>]
  ELSE LET keyed == [k \in DOMAIN candidates |-> <<k, FallbackKey(candidates[k], utcnow)>>]
           order == SortedByScore(keyed)
       IN  [status |-> "ok",
            list |-> Take([k \in DOMAIN order |-> candidates[order[k][1]]], limit + offset)]

\* enumerate(page, start=0): the position counted within the page
PositionOf_InPage(offset, k) == k - 1

\* enumerate(page, start=offset): the position of the k-th listing of the page
PositionOf(offset, k) == offset + k - 1

\* track_feed_impression's row
Impression(user_uid, listing, position) ==
  [user_uid |-> user_uid, listing_id |-> listing.id, position |-> position,
   score |-> IF "recommendation_score" \in DOMAIN listing
             THEN Some(listing.recommendation_score) ELSE Null,
   algorithm_version |-> "hybrid_v1"]

IdleFeed ==
  [pc |-> "args", user_uid |-> 1, limit |-> 1, offset |-> 0, exclude_applied |-> TRUE,
   user_prefs |-> <<>>, listings |-> <<>>, ranked_listings |-> <<>>,
   page |-> <<>>, i |-> 0,
   result |-> [status |-> "none", list |-> <<>>]]

\* crud/feed.py:266-394: the reads, the filters and the ranking
FeedRank ==
  /\ feed_call.pc = "args"
  /\ LET c == feed_call
         candidate_listings == QueryCandidates(c.listings, c.user_uid, c.limit)
         ranked == RankCandidates(c.user_uid,
                     FilterCandidates(candidate_listings, c.user_uid, c.user_prefs,
                                      c.exclude_applied, TRUE, interactions, now),
                     c.user_prefs, c.limit, c.offset, now)
     IN  IF BlockedTagsRaises(candidate_listings, c.user_prefs) \/ ranked.status = "raised"
         THEN feed_call' = [c EXCEPT !.pc = "ended",
                                     !.result = [status |-> "raised", list |-> <<>>]]
         ELSE feed_call' = [c EXCEPT !.pc = "track", !.i = 1,
                                     !.ranked_listings = ranked.list,
                                     !.page = Slice(ranked.list, c.offset, c.offset + c.limit)]
  /\ UNCHANGED <<now, rankVars, cf_input, cf_call, impressions, cb_call,
                 schedVars, runVars, cf, storeVars>>

\* crud/feed.py:397-403: one iteration of the loop over the page; the insert
\* may fail, and nothing catches it
FeedTrack ==
  /\ feed_call.pc = "track"
  /\ feed_call.i <= Len(feed_call.page)
  /\ \/ /\ faults_left > 0
        /\ faults_left' = faults_left - 1
        /\ feed_call' = [feed_call EXCEPT !.pc = "ended",
                           !.result = [status |-> "raised", list |-> <<>>]]
        /\ UNCHANGED impressions
     \/ /\ UNCHANGED faults_left
        /\ impressions' = Append(impressions,
             Impression(feed_call.user_uid, feed_call.page[feed_call.i],
                        PositionOf(feed_call.offset, feed_call.i)))
        /\ feed_call' = [feed_call EXCEPT !.i = feed_call.i + 1]
  /\ UNCHANGED <<now, rankVars, cf_input, cf_call, cb_call, schedVars, runVars, cf,
                 interactions, metrics, sim_rows, feature_vectors, view_fresh>>

\* crud/feed.py:406: return ranked_listings[offset:offset+limit]
FeedReturn ==
  /\ feed_call.pc = "track"
  /\ feed_call.i > Len(feed_call.page)
  /\ feed_call' = [feed_call EXCEPT !.pc = "ended",
                     !.result = [status |-> "ok", list |-> feed_call.page]]
  /\ UNCHANGED <<now, rankVars, cf_input, cf_call, impressions, cb_call,
                 schedVars, runVars, cf, storeVars>>

FeedIdle ==
  /\ feed_call = IdleFeed
  /\ impressions = <<>>

\* ===================================================================
\* A ContentBasedFilter called directly
\* ===================================================================
\* one feature vector, in thousandths, or Failed when building it raises:
\* `tag in None` and math.log1p(None) are TypeErrors
create_listing_feature_vector(listing, all_tags) ==
  LET listing_tags == Get(listing, "tags", Some(<<>>))
      compensation == LET c == Get(listing, "compensation", Some(0))
                      IN  IF Truthy(c) THEN Val(c) ELSE 0
      latitude == Get(listing, "latitude", Null)
      longitude == Get(listing, "longitude", Null)
      view_count == Get(listing, "view_count", Some(0))
      apply_count == Get(listing, "apply_count", Some(0))
  IN  IF (IsNone(listing_tags) /\ all_tags # <<>>) \/ IsNone(view_count) \/ IsNone(apply_count)
      THEN Failed
      ELSE Some(
             [i \in DOMAIN all_tags |->
                IF all_tags[i] \in ToSet(Val(listing_tags)) THEN 1000 ELSE 0]
             \o <<Min(compensation, 1000)>>
             \o (IF Truthy(latitude) /\ Truthy(longitude)
                 THEN <<(1000 * Val(latitude)) \div 90, (1000 * Val(longitude)) \div 180>>
                 ELSE <<0, 0>>)
             \o <<Log1p(Val(view_count)), 2 * Log1p(Val(apply_count))>>)

\* the interaction_weights table of create_user_preference_vector
interaction_weights(kind) ==
  CASE kind = "apply"   -> 10
    [] kind = "save"    -> 5
    [] kind = "share"   -> 3
    [] kind = "click"   -> 2
    [] kind = "view"    -> 1
    [] kind = "dismiss" -> -3
    [] OTHER            -> 1

\* np.zeros(n), as a quotient
Zeros(n) == [status |-> "ok", num |-> [i \in 1..n |-> 0], den |-> 1]

\* sum of weight(k) * vectors[k][i] over the rows
RECURSIVE WeightedTotal(_, _, _, _)
WeightedTotal(vectors, weights, i, k) ==
  IF k = 0 THEN 0
  ELSE weights[k] * vectors[k][i] + WeightedTotal(vectors, weights, i, k - 1)

RECURSIVE SumSeq(_, _)
SumSeq(s, k) == IF k = 0 THEN 0 ELSE s[k] + SumSeq(s, k - 1)

\* np.average(feature_matrix, axis=0, weights=weights): the quotient
\* num[i] / den for every column, or a ZeroDivisionError when the weights add
\* up to zero
Average(vectors, weights) ==
  LET den == SumSeq(weights, Len(weights))
  IN  IF den = 0 THEN [status |-> "raised", num |-> <<>>, den |-> 0]
      ELSE [status |-> "ok",
            num |-> [i \in DOMAIN vectors[1] |->
                       WeightedTotal(vectors, weights, i, Len(vectors))],
            den |-> den]

\* the rows that carry their listing (`if 'listing' in interaction`)
WithListing(user_interactions) ==
  SelectSeq(user_interactions, LAMBDA r : "listing" \in DOMAIN r)

\* the weighted average of the rows' feature vectors, the weights given
WeightedAverage(with_listing, all_tags, weights) ==
  LET vectors == [k \in DOMAIN with_listing |->
                            create_listing_feature_vector(with_listing[k].listing,
                                                          all_tags)]
  IN  IF \E k \in DOMAIN vectors : vectors[k] = Failed
      THEN [status |-> "raised", num |-> <<>>, den |-> 0]
      ELSE IF vectors = <<>> THEN Zeros(Len(all_tags) + 5)
      ELSE Average([k \in DOMAIN vectors |-> Val(vectors[k])], weights)

create_user_preference_vector(user_interactions, all_tags) ==
  IF user_interactions = <<>> THEN Zeros(Len(all_tags) + 5)
  ELSE LET with_listing == WithListing(user_interactions)
       IN  WeightedAverage(with_listing, all_tags,
                           [k \in DOMAIN with_listing |->
                              interaction_weights(with_listing[k].interaction_type)])

\* the listings the interactions are about
ContentListings == {ListingFull(1, 0), ListingHot(7), ListingBare(3, 0)}

\* interactions joined with their listing; one row came without its listing
ContentRows ==
  { [interaction_type |-> "view", listing |-> ListingFull(1, 0)],
    [interaction_type |-> "dismiss", listing |-> ListingHot(7)],
    [interaction_type |-> "share", listing |-> ListingHot(7)],
    [interaction_type |-> "like", listing |-> ListingFull(1, 0)],
    [interaction_type |-> "view", listing |-> ListingBare(3, 0)],
    [interaction_type |-> "apply"] }

\* the lists of at most n rows
RECURSIVE ContentHistories(_)
ContentHistories(n) ==
  IF n = 0 THEN {<<>>}
  ELSE LET shorter == ContentHistories(n - 1)
       IN  shorter \cup
           { Append(l, r) : l \in {t \in shorter : Len(t) = n - 1}, r \in ContentRows }

TagUniverses == {<<>>, <<1, 2, 3>>}

NoVector == [op |-> "none", user_interactions |-> <<>>, all_tags |-> <<>>,
             listing |-> <<>>,
             result |-> [status |-> "none", num |-> <<>>, den |-> 0]]

\* create_user_preference_vector(user_interactions, all_tags)
CbUserVector ==
  /\ cb_call' = [cb_call EXCEPT !.op = "user", !.listing = <<>>,
                   !.result = create_user_preference_vector(cb_call.user_interactions,
                                                            cb_call.all_tags)]
  /\ UNCHANGED <<now, rankVars, cf_input, cf_call, feed_call, impressions,
                 schedVars, runVars, cf, storeVars>>

\* create_listing_feature_vector(listing, all_tags)
CbListingVector ==
  /\ \E listing \in ContentListings :
       LET v == create_listing_feature_vector(listing, cb_call.all_tags)
       IN  cb_call' = [cb_call EXCEPT !.op = "listing", !.listing = listing,
                         !.result = IF v = Failed
                                    THEN [status |-> "raised", num |-> <<>>, den |-> 0]
                                    ELSE [status |-> "ok", num |-> Val(v), den |-> 1000]]
  /\ UNCHANGED <<now, rankVars, cf_input, cf_call, feed_call, impressions,
                 schedVars, runVars, cf, storeVars>>

ContentIdle == cb_call = NoVector

\* ------------------------------------------------------------ specifications
\* the ranking path alone
InitRank == RankInit /\ FilterIdle /\ FeedIdle /\ ContentIdle /\ SchedInit /\ RunsInit /\ StoreIdle

SpecRank == InitRank /\ [][NextRank]_vars

\* the steps of a run of each job
DailySteps    == SimRead \/ SimCompute \/ SimStore \/ FvRun
HourlySteps   == EngRead \/ EngStep
FrequentSteps == FreqRun

\* the scheduler service and the runs its triggers start
NextSched ==
  \/ Start \/ StopIdle \/ StopBegin \/ StopEnd
  \/ FireDaily \/ FireHourly \/ FireFrequent
  \/ DailySteps \/ HourlySteps \/ FrequentSteps

InitSched ==
  /\ now = 0 /\ RankIdle /\ FilterIdle /\ FeedIdle /\ ContentIdle /\ SchedInit /\ RunsInit
  /\ StoreInit({1}, {MinInteractions})

SpecSched == InitSched /\ [][NextSched]_vars

\* a daily run that is under way moves on.  Under SpecSched the steps that
\* change daily_run while a run is under way are those of DailySteps, and one
\* of them is enabled whenever a run is under way, so weak fairness of this
\* action with respect to daily_run is weak fairness of DailySteps; its
\* enabledness is decided without computing the matrices.
DailyAdvances ==
  /\ daily_run.pc # "idle"
  /\ daily_run' \in [pc : {"idle", "sim_read", "sim_compute", "sim_store", "fv"},
                     via : {"wrapper", "direct"},
                     i : 0..Len(interactions)]

\* every run has a thread of the executor's pool and keeps running; a
\* shutdown that has nothing left to wait for returns
FairSpecSched ==
  /\ SpecSched
  /\ WF_daily_run(DailyAdvances) /\ WF_vars(HourlySteps) /\ WF_vars(FrequentSteps)
  /\ WF_vars(StopEnd)

\* compute_user_similarity_matrix called directly, the event path, and days
\* going by
NextTrain ==
  \/ CallSimilarity \/ RecordInteraction \/ Tick
  \/ SimRead \/ SimCompute \/ SimStore

InitTrain ==
  /\ now = 0 /\ RankIdle /\ FilterIdle /\ FeedIdle /\ ContentIdle /\ SchedInit /\ RunsInit
  /\ StoreInit(DOMAIN Histories, {MinInteractions - 1, MinInteractions})

SpecTrain == InitTrain /\ [][NextTrain]_vars

\* the daily job however it is run: by the started scheduler, by the task
\* runner, by the admin trigger
NextDaily ==
  \/ Start \/ FireDaily \/ RunDailyTraining \/ TriggerDaily
  \/ SimRead \/ SimCompute \/ SimStore \/ FvRun

InitDaily ==
  /\ now = 0 /\ RankIdle /\ FilterIdle /\ FeedIdle /\ ContentIdle /\ SchedInit /\ RunsInit
  /\ StoreInit(DOMAIN Histories, {MinInteractions - 1, MinInteractions})

SpecDaily == InitDaily /\ [][NextDaily]_vars

\* the update methods called directly, and the event path
NextUpdate ==
  \/ CallFeatureVectors \/ CallEngagement \/ CallRefresh \/ RecordInteraction
  \/ CountEvent
  \/ FvRun \/ EngRead \/ EngStep \/ FreqRun

InitUpdate ==
  /\ now = 0 /\ RankIdle /\ FilterIdle /\ FeedIdle /\ ContentIdle /\ SchedInit /\ RunsInit
  /\ StoreInit(DOMAIN Histories, {MinInteractions})

SpecUpdate == InitUpdate /\ [][NextUpdate]_vars

\* a CollaborativeFilter built and queried by a direct caller
NextFilter == CfBuild \/ CfRebuild \/ CfSimilarity \/ CfRecommend

InitFilter ==
  /\ now = 0 /\ RankIdle /\ FeedIdle /\ ContentIdle /\ SchedInit /\ RunsInit /\ StoreIdle
  /\ cf_input \in {l \in InteractionLists(MaxLen) : InTableOrder(l)}
  /\ cf_call = NoCall

SpecFilter == InitFilter /\ [][NextFilter]_vars

\* one feed request
NextFeed == FeedRank \/ FeedTrack \/ FeedReturn

InitFeed ==
  /\ now = 0 /\ RankIdle /\ FilterIdle /\ ContentIdle /\ SchedInit /\ RunsInit
  /\ interactions = <<>> /\ metrics = <<>> /\ sim_rows = <<>>
  /\ feature_vectors = <<>> /\ view_fresh = FALSE /\ faults_left = MaxFaults
  /\ impressions = <<>>
  /\ feed_call \in
       { [IdleFeed EXCEPT !.limit = limit, !.offset = offset, !.user_prefs = user_prefs,
                          !.exclude_applied = exclude_applied, !.listings = listings] :
           limit \in 1..MaxLimit, offset \in 0..MaxOffset, user_prefs \in FeedPrefs,
           exclude_applied \in BOOLEAN,
           listings \in { [k \in DOMAIN l |-> WithPoster(l[k])] :
                           l \in {t \in CandidateLists(MaxListings) : DistinctIds(t)} } }

SpecFeed == InitFeed /\ [][NextFeed]_vars

\* a ContentBasedFilter asked for vectors by a direct caller
NextContent == CbUserVector \/ CbListingVector

InitContent ==
  /\ now = 0 /\ RankIdle /\ FilterIdle /\ FeedIdle /\ SchedInit /\ RunsInit /\ StoreIdle
  /\ cb_call \in { [NoVector EXCEPT !.user_interactions = h, !.all_tags = t] :
                     h \in ContentHistories(MaxLen), t \in TagUniverses }

SpecContent == InitContent /\ [][NextContent]_vars

\* ===================================================================
\* Claims about the ranking path (SpecRank)
\* ===================================================================

\* C1: rank_listings is deterministic in its arguments: two calls with the
\* same user_uid, listings, user_data and top_n return identical lists,
\* whatever the wall-clock time of each call.
C1_SameArgsSameResult ==
  rk_prev.status # "none" => rk_result = rk_prev

\* the inputs of a component are missing (absent or null)
Missing(d, keys) == \E k \in keys : IsNone(Get(d, k, Null))

CounterKeys == {"view_count", "click_count", "apply_count", "save_count",
                "share_count", "dismiss_count"}

\* C2: a ranking request always returns a result: whatever is missing or
\* null in the candidates or the user context, the call does not raise, the
\* result has one scored entry per candidate (up to top_n), and every
\* component whose inputs are missing has the neutral value 0.5.
C2_AlwaysReturnsWithNeutralDefaults ==
  rk_result.status # "none" =>
    /\ rk_result.status = "ok"
    /\ Len(rk_result.list) =
         IF IsNone(rk_args.top_n) THEN Len(rk_args.listings)
         ELSE Min(Val(rk_args.top_n), Len(rk_args.listings))
    /\ \A i \in DOMAIN rk_result.list :
         LET e == rk_result.list[i]
             c == e.score_components
         IN  /\ (Missing(e, {"latitude", "longitude"})
                  \/ Missing(rk_args.user_data, {"latitude", "longitude"}))
                  => c.location = 500
             /\ (Missing(e, {"tags"}) \/ Missing(rk_args.user_data, {"preferred_tags"}))
                  => c.tags = 500
             /\ Missing(e, CounterKeys) => c.engagement = 500
             /\ Missing(e, {"created_at"}) => c.recency = 500
             /\ Missing(e, {"poster_rating", "poster_num_listings", "poster_num_completed"})
                  => c.poster_quality = 500

\* the position of the candidate with this id in the input list
InputPos(id) == CHOOSE i \in DOMAIN rk_args.listings : rk_args.listings[i].id = id

\* C3: rank_listings is a stable descending sort: the output is ordered by
\* non-increasing recommendation_score, candidates with equal scores keep
\* their input order, and without top_n the output is a permutation of the
\* input candidates.
C3_StableDescendingSort ==
  rk_result.status = "ok" =>
    LET out == rk_result.list
    IN  /\ \A i, j \in DOMAIN out :
             i < j =>
               /\ out[i].recommendation_score >= out[j].recommendation_score
               /\ out[i].recommendation_score = out[j].recommendation_score
                    => InputPos(out[i].id) < InputPos(out[j].id)
        /\ \A i \in DOMAIN out :
             LET l == rk_args.listings[InputPos(out[i].id)]
             IN  /\ DOMAIN out[i] = DOMAIN l \cup {"recommendation_score", "score_components"}
                 /\ \A k \in DOMAIN l : out[i][k] = l[k]
        /\ IsNone(rk_args.top_n) =>
             /\ Len(out) = Len(rk_args.listings)
             /\ {out[i].id : i \in DOMAIN out}
                  = {rk_args.listings[j].id : j \in DOMAIN rk_args.listings}

\* a three-element ranking without top_n in which two candidates tie, the
\* tied pair came in with the larger id first, and the third scores differently
C3_Witness ==
  /\ rk_result.status = "ok"
  /\ IsNone(rk_args.top_n)
  /\ Len(rk_result.list) = 3
  /\ \E i, j, k \in DOMAIN rk_result.list :
       /\ i < j
       /\ rk_result.list[i].recommendation_score = rk_result.list[j].recommendation_score
       /\ rk_result.list[i].id > rk_result.list[j].id
       /\ rk_result.list[k].recommendation_score > rk_result.list[i].recommendation_score
       /\ InputPos(rk_result.list[k].id) > InputPos(rk_result.list[j].id)

\* C4: whenever top_n is given (any integer >= 0) the result is exactly the
\* first top_n entries of the full ranking, of length min(top_n, number of
\* candidates); only when top_n is absent are all candidates returned.
C4_TopNTruncates ==
  rk_result.status = "ok" =>
    LET full == rank_listings(rk_args.user_uid, rk_args.listings,
                              rk_args.user_data, Null, rk_at).list
    IN  IF IsNone(rk_args.top_n)
        THEN rk_result.list = full
        ELSE /\ rk_result.list = Take(full, Val(rk_args.top_n))
             /\ Len(rk_result.list) = Min(Val(rk_args.top_n), Len(rk_args.listings))

\* ===================================================================
\* Claims about the scheduler service (SpecSched, FairSpecSched)
\* ===================================================================

\* C5: start() on a service that is already running is a no-op with a
\* warning: nothing is raised, is_running stays true, the scheduler keeps its
\* state, and the registered jobs are, before and after, exactly
\* daily_training, hourly_updates and frequent_updates, each once.
C5_StartWhileRunningIsNoOp ==
  [][(Start /\ is_running) =>
       /\ last_call' = [op |-> "start", result |-> "warned"]
       /\ is_running'
       /\ sched_jobs = Jobs
       /\ UNCHANGED <<sched_jobs, sched_state>>
       /\ get_status' = [status |-> "running", jobs |-> Jobs]]_vars

\* start() was called on the running service while a run was in flight
C5_Witness ==
  /\ last_call = [op |-> "start", result |-> "warned"]
  /\ is_running
  /\ sched_jobs = Jobs
  /\ eng_run.pc = "loop"

\* C6: once stop() has returned, whether it found the service running or
\* already stopped, nothing was raised, the service is Stopped (is_running
\* false, get_status reports stopped with no jobs), no job is registered and
\* no trigger can fire; stop() on a stopped service changes nothing.
C6_StopReturnsToStopped ==
  /\ (last_call.op = "stop" /\ last_call.result # "waiting") =>
       /\ last_call.result \in {"done", "warned"}
       /\ ~is_running
       /\ sched_state = "stopped"
       /\ sched_jobs = <<>>
       /\ get_status = [status |-> "stopped", jobs |-> <<>>]
       /\ \A k \in DOMAIN Jobs : ~CanFire(Jobs[k])
  /\ ~is_running => (sched_state = "stopped" /\ sched_jobs = <<>>)

\* stop() has returned from a service that was running, after a run of a job
C6_Witness ==
  /\ last_call = [op |-> "stop", result |-> "done"]
  /\ get_status = [status |-> "stopped", jobs |-> <<>>]
  /\ outcome.job # "none"

\* C7: stop() leaves the runs in flight alone, a run that is in flight while
\* stop() waits goes on to its end, and while the service is not running no
\* run of any job begins.
C7_StopWaitsForRunsAndNothingFiresAfter ==
  /\ [][(StopBegin \/ StopEnd \/ StopIdle) => UNCHANGED <<runVars, cf, storeVars>>]_vars
  /\ [][~is_running =>
          /\ daily_run.pc = "idle" => daily_run'.pc = "idle"
          /\ eng_run.pc = "idle" => eng_run'.pc = "idle"
          /\ freq_run.pc = "idle" => freq_run'.pc = "idle"]_vars
  /\ (sched_state = "stopping" /\ daily_run.pc # "idle") ~> (daily_run.pc = "idle")
  /\ (sched_state = "stopping" /\ eng_run.pc # "idle") ~> (eng_run.pc = "idle")
  /\ (sched_state = "stopping" /\ freq_run.pc # "idle") ~> (freq_run.pc = "idle")

\* stop() is waiting while the hourly run has written one listing and has
\* another one to go, and the daily run has all of its upserts ahead
C7_Witness ==
  /\ sched_state = "stopping"
  /\ eng_run.pc = "loop" /\ eng_run.i = 2 /\ eng_run.written = {1}
  /\ daily_run.pc = "sim_store" /\ sim_rows = <<>>

\* a run that is under way takes a step
RunStep ==
  \/ daily_run.pc # "idle" /\ daily_run' # daily_run
  \/ eng_run.pc # "idle" /\ eng_run' # eng_run
  \/ freq_run.pc # "idle" /\ freq_run' # freq_run

\* C8: no step of a run of a wrapper hands an exception to the scheduler (a
\* run ends as returned or caught) or changes the scheduler service; when
\* the scheduler is running it is still running afterwards with its three
\* jobs registered, and each of them can fire.
C8_ExceptionsCaughtInWrapper ==
  [][RunStep =>
       /\ outcome'.result # "raised"
       /\ UNCHANGED schedVars
       /\ (is_running /\ sched_state = "running") =>
            /\ is_running' /\ sched_state' = "running"
            /\ sched_jobs' = Jobs
            /\ \A k \in DOMAIN Jobs : CanFire(Jobs[k])']_vars

\* the exception of an hourly run was caught, and the next hourly run has
\* been fired and is under way
C8_Witness ==
  /\ outcome = [job |-> "hourly_updates", result |-> "caught"]
  /\ is_running
  /\ eng_run.pc = "loop"
  /\ eng_run.via = "wrapper"

\* ===================================================================
\* Claims about the training methods (SpecUpdate, SpecTrain)
\* ===================================================================

\* C9: when a run of update_engagement_scores over the metrics rows it read
\* is over, every listing among them but those a failure concerned has had
\* its scores written in this run.
C9_FailureSkipsOnlyThatListing ==
  (eng_run.pc = "idle" /\ eng_run.todo # <<>>) =>
    \A k \in DOMAIN eng_run.todo :
      eng_run.todo[k].listing_id \notin eng_run.failed
        => eng_run.todo[k].listing_id \in eng_run.written

\* the rows compute_user_similarity_matrix reads
WindowRead == Rows(SelectSince(interactions, now - WindowDays))

\* C10: a run of compute_user_similarity_matrix that reads fewer than 100
\* interactions returns with the filter's matrices and index maps and the
\* similarity table exactly as they were; one that reads 100 or more builds
\* the matrix and the index maps of the users and listings read, computes the
\* similarities and goes through the storing loop, where every request of an
\* iteration without a failed request that names two users in ascending order
\* is in the similarity table afterwards.
C10_TooFewInteractionsIsNoOp ==
  [][/\ (SimRead /\ Len(WindowRead) < MinInteractions /\ UNCHANGED faults_left) =>
          /\ UNCHANGED <<cf, sim_rows>>
          /\ daily_run'.pc \notin {"sim_compute", "sim_store"}
          /\ outcome' = [job |-> "daily_training", result |-> "returned"]
     /\ (SimRead /\ Len(WindowRead) >= MinInteractions /\ UNCHANGED faults_left) =>
          /\ daily_run'.pc = "sim_compute"
          /\ ~IsNone(cf'.user_item_matrix)
          /\ DOMAIN cf'.user_index_map = {WindowRead[k].user_uid : k \in DOMAIN WindowRead}
          /\ DOMAIN cf'.item_index_map = {WindowRead[k].listing_id : k \in DOMAIN WindowRead}
     /\ SimCompute =>
          /\ daily_run'.pc = "sim_store"
          /\ ~IsNone(cf'.user_similarity_matrix)
     /\ (SimStore /\ UNCHANGED faults_left) =>
          LET reqs == UpsertRequests(cf, daily_run.i)
          IN  \A k \in DOMAIN reqs :
                reqs[k].user_a_uid < reqs[k].user_b_uid =>
                  /\ <<reqs[k].user_a_uid, reqs[k].user_b_uid>> \in DOMAIN sim_rows'
                  /\ sim_rows'[<<reqs[k].user_a_uid, reqs[k].user_b_uid>>].last_computed
                       = now]_vars

\* a run that found too few interactions in the window has returned (it
\* never entered the storing loop) and the filter and the rows that an earlier
\* run on 100 interactions had built are there
C10_Witness ==
  /\ daily_run = [pc |-> "idle", via |-> "direct", i |-> 0]
  /\ outcome = [job |-> "daily_training", result |-> "returned"]
  /\ Len(WindowRead) < MinInteractions
  /\ ~IsNone(cf.user_similarity_matrix)
  /\ sim_rows # <<>>


\* ===================================================================
\* Claims about the CollaborativeFilter (SpecFilter, SpecTrain)
\* ===================================================================
\* the latest call was get_recommendations for a user who has a row in a
\* filter whose matrices are computed
RecommendedFromMatrix ==
  /\ cf_call.op = "recommend"
  /\ ~IsNone(cf.user_item_matrix) /\ ~IsNone(cf.user_similarity_matrix)
  /\ cf_call.user_uid \in DOMAIN cf.user_index_map

\* C11: for every built matrix and every user in it, the neighbours whose
\* scores get_recommendations takes never include the requesting user itself,
\* whatever the similarity values are (ties with the self-similarity, an
\* all-zero row of the requester).
C11_NeighboursExcludeSelf ==
  RecommendedFromMatrix =>
    LET neighbours == ScoringNeighbours(cf, cf_call.user_uid, cf_call.top_k)
    IN  \A k \in DOMAIN neighbours : neighbours[k] # cf.user_index_map[cf_call.user_uid]

\* the filter cannot answer for the user: no matrix, no similarities, or no
\* row for the user in the index map
ColdStart(f, user_uid) ==
  \/ IsNone(f.user_item_matrix)
  \/ IsNone(f.user_similarity_matrix)
  \/ user_uid \notin DOMAIN f.user_index_map

\* C13: get_recommendations returns the empty list, raises nothing and
\* leaves the filter as it was whenever the user has no row in the index map
\* or the matrix or the similarities are not computed yet.
C13_ColdStartReturnsEmpty ==
  [][cf_call'.op = "recommend" =>
       /\ UNCHANGED cf
       /\ ColdStart(cf, cf_call'.user_uid)
            => cf_call'.result = [status |-> "ok", list |-> <<>>]]_vars

\* a user without a row asked a filter whose matrices are computed
C13_Witness ==
  /\ cf_call.op = "recommend"
  /\ ~IsNone(cf.user_item_matrix) /\ ~IsNone(cf.user_similarity_matrix)
  /\ cf_call.user_uid \notin DOMAIN cf.user_index_map
  /\ cf_call.result = [status |-> "ok", list |-> <<>>]

\* C14: calculate_user_similarity on a filter whose matrix was never built
\* fails and leaves the filter Unbuilt (matrix, similarities and index maps
\* unchanged); after build_user_item_matrix it succeeds and the filter holds
\* a similarity matrix with a row and a column per user of the index map.
C14_SimilarityNeedsMatrix ==
  [][cf_call'.op = "similarity" =>
       IF IsNone(cf.user_item_matrix)
       THEN /\ cf_call'.result.status = "raised"
            /\ UNCHANGED cf
            /\ IsNone(cf'.user_similarity_matrix)
       ELSE /\ cf_call'.result.status = "ok"
            /\ ~IsNone(cf'.user_similarity_matrix)
            /\ LET sim == Val(cf'.user_similarity_matrix)
                   indices == {cf.user_index_map[u] : u \in DOMAIN cf.user_index_map}
               IN  /\ DOMAIN sim = indices
                   /\ \A a \in indices : DOMAIN sim[a] = indices
            /\ cf'.user_item_matrix = cf.user_item_matrix
            /\ cf'.user_index_map = cf.user_index_map
            /\ cf'.item_index_map = cf.item_index_map]_vars

\* the call failed on a filter that was never built
C14_Witness ==
  /\ cf_call.op = "similarity"
  /\ cf_call.result.status = "raised"
  /\ cf = FreshFilter

\* the number of interactions of kind `kind` of user u with listing l
KindCount(ints, u, l, kind) ==
  Cardinality({k \in DOMAIN ints : /\ ints[k].user_uid = u
                                   /\ ints[k].listing_id = l
                                   /\ ints[k].interaction_type = kind})

KnownKinds == {"apply", "save", "share", "click", "view", "dismiss"}

\* the sum of the kind weights of the interactions of user u with listing l
WeightSum(ints, u, l) ==
  10 * KindCount(ints, u, l, "apply") + 5 * KindCount(ints, u, l, "save")
    + 3 * KindCount(ints, u, l, "share") + 2 * KindCount(ints, u, l, "click")
    + 1 * KindCount(ints, u, l, "view") - 5 * KindCount(ints, u, l, "dismiss")
    + 1 * Cardinality({k \in DOMAIN ints : /\ ints[k].user_uid = u
                                           /\ ints[k].listing_id = l
                                           /\ ints[k].interaction_type \notin KnownKinds})

\* C15: build_user_item_matrix is order-independent: built from any
\* rearrangement of the caller's list, the index maps are those of the ids in
\* sorted order and the matrix is the one built from the list as the caller
\* holds it; each cell is the sum of the kind weights of the interactions of
\* its (user, listing) pair (apply 10, save 5, share 3, click 2, view 1,
\* dismiss -5, any other kind 1).
C15_BuildIsOrderIndependent ==
  cf_call.op = "build" =>
    LET users == {cf_input[k].user_uid : k \in DOMAIN cf_input}
        items == {cf_input[k].listing_id : k \in DOMAIN cf_input}
        m == Val(cf.user_item_matrix)
    IN  /\ DOMAIN cf.user_index_map = users
        /\ DOMAIN cf.item_index_map = items
        /\ \A u, v \in users : u < v => cf.user_index_map[u] < cf.user_index_map[v]
        /\ \A i, j \in items : i < j => cf.item_index_map[i] < cf.item_index_map[j]
        /\ \A u \in users : cf.user_index_map[u] \in 0..(Cardinality(users) - 1)
        /\ \A i \in items : cf.item_index_map[i] \in 0..(Cardinality(items) - 1)
        /\ cf.user_item_matrix = BuildMatrix(FreshFilter, cf_input).user_item_matrix
        /\ cf.user_item_matrix = build_user_item_matrix(FreshFilter, cf_call.ints).user_item_matrix
        /\ DOMAIN m = {<<cf.user_index_map[cf_input[k].user_uid],
                         cf.item_index_map[cf_input[k].listing_id]>> : k \in DOMAIN cf_input}
        /\ \A u \in users, l \in items :
             <<cf.user_index_map[u], cf.item_index_map[l]>> \in DOMAIN m
               => m[<<cf.user_index_map[u], cf.item_index_map[l]>>] = WeightSum(cf_input, u, l)

\* a matrix built from a rearranged list in which a save and a dismissal of
\* one pair cancel and a single apply gives 10
C15_Witness ==
  /\ cf_call.op = "build"
  /\ cf_call.ints # cf_input
  /\ \E q \in DOMAIN Val(cf.user_item_matrix) : Val(cf.user_item_matrix)[q] = 0
  /\ \E q \in DOMAIN Val(cf.user_item_matrix) : Val(cf.user_item_matrix)[q] = 10

\* C12: every row compute_user_similarity_matrix upserts is in canonical
\* order and is no self-pair: user_a_uid is strictly smaller than user_b_uid,
\* for every interaction set and every tie pattern of the similarities.
C12_UpsertsAreCanonical ==
  daily_run.pc = "sim_store" =>
    LET reqs == UpsertRequests(cf, daily_run.i)
    IN  \A k \in DOMAIN reqs : reqs[k].user_a_uid < reqs[k].user_b_uid

\* C16: the structures of a training run are published atomically: whenever
\* a reader looks at the filter, the similarity matrix it finds is the one
\* computed from the user-item matrix it finds, and the index maps are those
\* of that matrix; never the maps and matrix of a new run with the
\* similarity matrix of the run before.
C16_PublishedAtomically ==
  ~IsNone(cf.user_similarity_matrix) =>
    /\ ~IsNone(cf.user_item_matrix)
    /\ DOMAIN Val(cf.user_similarity_matrix)
         = {cf.user_index_map[u] : u \in DOMAIN cf.user_index_map}
    /\ cf.user_similarity_matrix = Some(CosineSimilarity(Val(cf.user_item_matrix)))

\* ===================================================================
\* Claims about the update jobs (SpecUpdate)
\* ===================================================================
\* the row of listing l as the run under way read it
ReadRow(l) ==
  eng_run.todo[CHOOSE k \in DOMAIN eng_run.todo : eng_run.todo[k].listing_id = l]

\* this step of update_engagement_scores writes the scores of listing l
WritesScores(l) == l \notin eng_run.written /\ l \in eng_run'.written

\* C17: for every metrics record, the engagement_score that
\* update_engagement_scores writes is the value of calculate_engagement_score
\* (weighted sum, log1p(raw) * 10 when raw > 0, floored at 0) on the six
\* counters it read, and the trending_score it writes is that
\* engagement_score * 0.3 plus 10 times the number of interactions on the
\* listing in the last 24 hours.
C17_ScoresFollowTheFormula ==
  [][\A l \in DOMAIN metrics : WritesScores(l) =>
       LET metric == ReadRow(l)
       IN  /\ metrics'[l].engagement_score =
                calculate_engagement_score(metric.view_count, metric.click_count,
                                           metric.apply_count, metric.save_count,
                                           metric.share_count, metric.dismiss_count)
           /\ metrics'[l].trending_score =
                (metrics'[l].engagement_score * 3) \div 10
                  + 100 * RecentCount(interactions, l, now)]_vars

\* the six raw counters of a metrics row
Counters(row) == [c \in CounterKeys |-> row[c]]

\* C18: update_engagement_scores never writes a raw counter: no step of a
\* run, however it interleaves with the counter increments of the event path,
\* changes a counter of any row (no increment is lost or overwritten); a
\* step changes nothing of a row but engagement_score, trending_score and
\* last_updated.
C18_RunNeverWritesCounters ==
  [][eng_run' # eng_run =>
       /\ DOMAIN metrics' = DOMAIN metrics
       /\ \A l \in DOMAIN metrics :
            /\ Counters(metrics'[l]) = Counters(metrics[l])
            /\ \A field \in DOMAIN metrics[l] \ {"engagement_score", "trending_score",
                                                 "last_updated"} :
                 metrics'[l][field] = metrics[l][field]]_vars

\* the run wrote the scores of a listing whose counter the event path had
\* incremented after the run read the row
C18_Witness ==
  \E l \in eng_run.written :
    /\ metrics[l].last_updated = now
    /\ ReadRow(l).click_count # metrics[l].click_count
    /\ Val(metrics[l].click_count) = Val(ReadRow(l).click_count) + 1

\* ===================================================================
\* Claims about the feed request (SpecFeed)
\* ===================================================================
\* C19: a get_personalized_feed call that returns n listings has written
\* exactly n impression records, one per returned listing in returned order
\* and none for another listing, each with the requesting user, the listing's
\* id, the listing's position in the full ranking (offset, offset + 1, ...,
\* offset + n - 1) and the listing's recommendation_score (none when the
\* listing carries none).
C19_OneImpressionPerReturnedListing ==
  (feed_call.pc = "ended" /\ feed_call.result.status = "ok") =>
    LET returned == feed_call.result.list
    IN  /\ Len(impressions) = Len(returned)
        /\ \A k \in DOMAIN returned :
             /\ impressions[k].user_uid = feed_call.user_uid
             /\ impressions[k].listing_id = returned[k].id
             /\ impressions[k].position = feed_call.offset + k - 1
             /\ feed_call.ranked_listings[impressions[k].position + 1].id = returned[k].id
             /\ impressions[k].score =
                  (IF "recommendation_score" \in DOMAIN returned[k]
                   THEN Some(returned[k].recommendation_score) ELSE Null)

\* the second page of a ranking: two listings returned from offset 1 on
C19_Witness ==
  /\ feed_call.pc = "ended" /\ feed_call.result.status = "ok"
  /\ feed_call.offset = 1
  /\ Len(feed_call.result.list) = 2
  /\ Len(impressions) = 2
  /\ impressions[2].position = 2

\* ===================================================================
\* Claims about the signal calculators (SpecRank)
\* ===================================================================
\* the four coordinates calculate_location_score gets for a ranked listing
Coordinates(listing) ==
  << Get(rk_args.user_data, "latitude", Null), Get(rk_args.user_data, "longitude", Null),
     Get(listing, "latitude", Null), Get(listing, "longitude", Null) >>

\* C20: calculate_location_score returns 1.0 whenever the user point and
\* the listing point are the same non-null point, also when its latitude or
\* longitude is 0, and returns the neutral 0.5 exactly when one of the four
\* coordinates is null.
C20_LocationScoreOfSamePoint ==
  rk_result.status = "ok" =>
    \A k \in DOMAIN rk_result.list :
      LET listing == rk_result.list[k]
          c == Coordinates(listing)
          unknown == \E i \in 1..4 : IsNone(c[i])
          location == listing.score_components.location
      IN  /\ (~unknown /\ c[1] = c[3] /\ c[2] = c[4]) => location = 1000
          /\ (location = 500) <=> unknown

\* the tags of a list argument as a set; None holds no tag
TagSet(tags) == IF IsNone(tags) THEN {} ELSE ToSet(Val(tags))

\* C21: calculate_tag_similarity(A, B) lies in [0, 1]; it is 1 when A and B
\* hold the same non-empty set of tags, 0.5 whenever A or B is empty, and
\* otherwise |A n B| / |A u B| on the sets of tags, whatever the duplicates.
C21_TagSimilarityIsJaccard ==
  rk_result.status = "ok" =>
    \A k \in DOMAIN rk_result.list :
      LET listing == rk_result.list[k]
          A == TagSet(Get(rk_args.user_data, "preferred_tags", Some(<<>>)))
          B == TagSet(Get(listing, "tags", Some(<<>>)))
          both == {t \in A : t \in B}
          either == A \cup B
          tags == listing.score_components.tags
      IN  /\ 0 <= tags /\ tags <= 1000
          /\ (A = B /\ A # {}) => tags = 1000
          /\ (A = {} \/ B = {}) => tags = 500
          /\ (A # {} /\ B # {}) =>
               tags = (1000 * Cardinality(both)) \div Cardinality(either)

\* a ranked listing whose tags overlap a preference list that names a tag
\* twice, next to one that shares no tag with it
C21_Witness ==
  /\ rk_result.status = "ok"
  /\ Get(rk_args.user_data, "preferred_tags", Null) = Some(<<2, 3, 2>>)
  /\ \E k \in DOMAIN rk_result.list :
       /\ Get(rk_result.list[k], "tags", Null) = Some(<<1, 2>>)
       /\ rk_result.list[k].score_components.tags = 333
  /\ \E k \in DOMAIN rk_result.list :
       /\ Get(rk_result.list[k], "tags", Null) = Some(<<1>>)
       /\ rk_result.list[k].score_components.tags = 0

\* the default weights, in hundredths
ClaimedWeights ==
  [location |-> 25, tags |-> 20, engagement |-> 15, recency |-> 10,
   poster_quality |-> 10, collaborative |-> 10, content |-> 10]

\* the entries of the previous and of the latest call for the same listing
SameListing(i, j) ==
  /\ i \in DOMAIN rk_prev.list /\ j \in DOMAIN rk_result.list
  /\ rk_prev.list[i].id = rk_result.list[j].id

\* C22: the default weights sum to 1.0 and the final score is the weighted
\* sum of all seven components, so raising one component by d with the
\* others fixed raises the final score by that component's weight times d.
C22_ScoreIsTheWeightedSum ==
  /\ DefaultWeights = ClaimedWeights
  /\ SumOver(ClaimedWeights, Components) = 100
  /\ \A r \in {rk_prev, rk_result} : \A k \in DOMAIN r.list :
       /\ DOMAIN r.list[k].score_components = Components
       /\ r.list[k].recommendation_score =
            SumOver([c \in Components |->
                       ClaimedWeights[c] * r.list[k].score_components[c]], Components)
  /\ \A i \in DOMAIN rk_prev.list, j \in DOMAIN rk_result.list, c \in Components :
       LET before == rk_prev.list[i]
           after == rk_result.list[j]
       IN  ( /\ SameListing(i, j)
             /\ \A o \in Components \ {c} :
                  before.score_components[o] = after.score_components[o] )
           => after.recommendation_score - before.recommendation_score
                = ClaimedWeights[c] * (after.score_components[c] - before.score_components[c])

\* two calls a day apart: only the recency of a listing moved
C22_Witness ==
  \E i \in DOMAIN rk_prev.list, j \in DOMAIN rk_result.list :
    /\ SameListing(i, j)
    /\ rk_prev.list[i].score_components.recency
         # rk_result.list[j].score_components.recency
    /\ \A o \in Components \ {"recency"} :
         rk_prev.list[i].score_components[o] = rk_result.list[j].score_components[o]
    /\ rk_prev.list[i].recommendation_score # rk_result.list[j].recommendation_score

\* ===================================================================
\* Claims about the content-based filter (SpecContent)
\* ===================================================================
\* the average the weight table of build_user_item_matrix gives
ExpectedPreference ==
  LET with_listing == WithListing(cb_call.user_interactions)
  IN  WeightedAverage(with_listing, cb_call.all_tags,
                      [k \in DOMAIN with_listing |->
                         InteractionWeight(with_listing[k].interaction_type)])

\* C23: create_user_preference_vector weights every interaction kind as
\* build_user_item_matrix does (apply 10, save 5, share 3, click 2, view 1,
\* dismiss -5, unknown 1); for an empty history it returns the zero vector,
\* whose length |tagUniverse| + 5 is the length of every listing vector.
C23_PreferenceUsesTheMatrixWeights ==
  cb_call.op = "user" =>
    LET result == cb_call.result
        expected == ExpectedPreference
    IN  /\ (cb_call.user_interactions # <<>> /\ expected.status = "ok") =>
             /\ result.status = "ok"
             /\ DOMAIN result.num = DOMAIN expected.num
             /\ \A i \in DOMAIN result.num :
                  result.num[i] * expected.den = expected.num[i] * result.den
        /\ cb_call.user_interactions = <<>> =>
             /\ result.status = "ok"
             /\ Len(result.num) = Len(cb_call.all_tags) + 5
             /\ \A i \in DOMAIN result.num : result.num[i] = 0
             /\ \A listing \in ContentListings :
                  LET v == create_listing_feature_vector(listing, cb_call.all_tags)
                  IN  v # Failed => Len(Val(v)) = Len(result.num)

\* ===================================================================
\* Claims about the persisted similarity rows (SpecTrain)
\* ===================================================================
\* C24: every row compute_user_similarity_matrix upserts describes the two
\* users it names: its score is the cosine similarity of their two matrix
\* rows in that run and its count is the number of items both have a stored
\* cell for, at every position of every user's neighbour list.
C24_RowsDescribeTheirUsers ==
  daily_run.pc = "sim_store" =>
    LET reqs == UpsertRequests(cf, daily_run.i)
        m == Val(cf.user_item_matrix)
        sim == Val(cf.user_similarity_matrix)
    IN  \A k \in DOMAIN reqs :
          LET a == cf.user_index_map[reqs[k].user_a_uid]
              b == cf.user_index_map[reqs[k].user_b_uid]
          IN  /\ reqs[k].similarity_score = SimScore(sim[a][b])
              /\ reqs[k].interaction_count
                   = Cardinality(RowItems(m, a) \cap RowItems(m, b))

\* ===================================================================
\* More claims about the collaborative filter (SpecFilter)
\* ===================================================================
\* the neighbours of the latest get_recommendations call that have a stored
\* cell for listing l
InteractedWith(l) ==
  LET neighbours == ScoringNeighbours(cf, cf_call.user_uid, cf_call.top_k)
      m == Val(cf.user_item_matrix)
  IN  IF l \notin DOMAIN cf.item_index_map THEN {}
      ELSE {k \in DOMAIN neighbours : <<neighbours[k], cf.item_index_map[l]>> \in DOMAIN m}

\* the sum of similarity * weighted score over those neighbours
AccumulatedScore(l) ==
  LET neighbours == ScoringNeighbours(cf, cf_call.user_uid, cf_call.top_k)
      m == Val(cf.user_item_matrix)
      user_similarities ==
        Val(cf.user_similarity_matrix)[cf.user_index_map[cf_call.user_uid]]
  IN  SumOver([k \in InteractedWith(l) |->
                 SimScore(user_similarities[neighbours[k]])
                   * m[<<neighbours[k], cf.item_index_map[l]>>]],
              InteractedWith(l))

\* C25: for a user present in the matrix get_recommendations returns only
\* candidate listings, each once, sorted by accumulated score descending;
\* the accumulated score of a listing is the sum, over the selected
\* neighbours with similarity > 0, of similarity times the neighbour's
\* weighted score on it, for every candidate listing a neighbour interacted
\* with, whatever the sign of that score.
C25_ScoresSumOverNeighbours ==
  ( /\ cf_call.op = "recommend"
    /\ cf_call.result.status = "ok"
    /\ ~ColdStart(cf, cf_call.user_uid) ) =>
    LET list == cf_call.result.list
        candidates == ToSet(cf_call.candidate_listings)
    IN  /\ \A k \in DOMAIN list : list[k][1] \in candidates
        /\ \A j, k \in DOMAIN list : j # k => list[j][1] # list[k][1]
        /\ \A j, k \in DOMAIN list : j < k => list[j][2] >= list[k][2]
        /\ {list[k][1] : k \in DOMAIN list} = {l \in candidates : InteractedWith(l) # {}}
        /\ \A k \in DOMAIN list : list[k][2] = AccumulatedScore(list[k][1])

\* C26: the user-item matrix is rebuilt wholesale: after
\* build_user_item_matrix(I2) on a filter built from I1 before, the index
\* maps and the matrix are those a fresh filter produces for I2 alone; no
\* user, item or weight that occurs only in I1 remains.
C26_RebuiltWholesale ==
  cf_call.op = "rebuild" =>
    LET fresh == build_user_item_matrix(FreshFilter, cf_call.ints)
    IN  /\ cf.user_index_map = fresh.user_index_map
        /\ cf.item_index_map = fresh.item_index_map
        /\ cf.user_item_matrix = fresh.user_item_matrix
        /\ DOMAIN cf.user_index_map
             = {cf_call.ints[k].user_uid : k \in DOMAIN cf_call.ints}
        /\ DOMAIN cf.item_index_map
             = {cf_call.ints[k].listing_id : k \in DOMAIN cf_call.ints}

\* a rebuild that lost a user, an item and a weight of the first list
C26_Witness ==
  /\ cf_call.op = "rebuild"
  /\ \E k \in DOMAIN cf_input :
       /\ cf_input[k].user_uid \notin DOMAIN cf.user_index_map
       /\ cf_input[k].listing_id \notin DOMAIN cf.item_index_map
  /\ \E k \in DOMAIN cf_input :
       LET u == cf_input[k].user_uid
           l == cf_input[k].listing_id
       IN  /\ u \in DOMAIN cf.user_index_map /\ l \in DOMAIN cf.item_index_map
           /\ <<cf.user_index_map[u], cf.item_index_map[l]>>
                \in DOMAIN Val(cf.user_item_matrix)
           /\ Val(cf.user_item_matrix)[<<cf.user_index_map[u], cf.item_index_map[l]>>]
                # WeightSum(cf_input, u, l)

\* C27: whatever the sequence of build_user_item_matrix,
\* calculate_user_similarity and get_recommendations calls on one filter, a
\* similarity matrix that get_recommendations reads was computed from the
\* current user-item matrix and index maps: after a rebuild not followed by
\* calculate_user_similarity the filter is Built again and the similarity
\* matrix of the build before is not used.
C27_SimilarityIsOfTheCurrentMatrix ==
  ( /\ cf_call.op = "recommend"
    /\ ~ColdStart(cf, cf_call.user_uid) ) =>
    cf.user_similarity_matrix = Some(CosineSimilarity(Val(cf.user_item_matrix)))

\* ===================================================================
\* Claims about the daily run (SpecDaily)
\* ===================================================================
\* this step is compute_user_similarity_matrix returning without an
\* exception: after too few interactions, or after the last user's upserts
SimilarityReturns ==
  \/ /\ daily_run.pc = "sim_read"
     /\ daily_run' # daily_run
     /\ faults_left' = faults_left
     /\ Len(WindowRead) < MinInteractions
  \/ /\ daily_run.pc = "sim_store"
     /\ daily_run.i + 1 >= Cardinality(DOMAIN cf.user_index_map)
     /\ daily_run' # daily_run

\* this step is compute_user_similarity_matrix raising: its read failed
SimilarityRaises ==
  /\ daily_run.pc = "sim_read"
  /\ daily_run' # daily_run
  /\ faults_left' < faults_left

\* C28: in one daily run (the scheduled wrapper, run_daily_training or the
\* manual daily trigger) update_user_feature_vectors is executed if and
\* only if compute_user_similarity_matrix has returned without raising in
\* that run, its insufficient-data no-op included; it never starts before
\* the similarity step has ended.
C28_FeatureVectorsFollowSimilarity ==
  [][ /\ (daily_run.pc = "idle" /\ daily_run'.pc # "idle" /\ daily_run'.via \in DailyRunners)
         => daily_run'.pc = "sim_read"
      /\ (daily_run.pc # "idle" /\ daily_run.via \in DailyRunners) =>
           /\ (daily_run.pc # "fv" /\ daily_run'.pc = "fv") <=> SimilarityReturns
           /\ SimilarityRaises => (daily_run'.pc = "idle" /\ UNCHANGED feature_vectors)
           /\ feature_vectors' # feature_vectors => daily_run.pc = "fv"
           /\ daily_run.pc = "fv" => daily_run'.pc \in {"fv", "idle"}
    ]_vars

\* the manual trigger reaches update_user_feature_vectors after the
\* similarity step returned early on too few interactions
C28_Witness ==
  /\ daily_run.pc = "fv"
  /\ daily_run.via = "trigger"
  /\ Len(WindowRead) < MinInteractions
  /\ cf = FreshFilter

\* ===================================================================
\* More claims about the feed (SpecFeed)
\* ===================================================================
\* C29: every listing get_personalized_feed returns respects the exclusion
\* filters: it is not posted by the requesting user nor by a user in
\* blocked_users, carries no tag in blocked_tags and, when exclude_applied is
\* set, is not a listing the user applied to; at most limit are returned.
C29_FeedRespectsExclusions ==
  (feed_call.pc = "ended" /\ feed_call.result.status = "ok") =>
    LET returned == feed_call.result.list
        blocked_users == Get(feed_call.user_prefs, "blocked_users", {})
        blocked_tags == Get(feed_call.user_prefs, "blocked_tags", {})
    IN  /\ Len(returned) <= feed_call.limit
        /\ \A k \in DOMAIN returned :
             /\ returned[k].poster_uid # feed_call.user_uid
             /\ returned[k].poster_uid \notin blocked_users
             /\ \A t \in TagSet(Get(returned[k], "tags", Null)) : t \notin blocked_tags
             /\ feed_call.exclude_applied => returned[k].id \notin AppliedIds

\* a feed that came back non-empty although the table held the user's own
\* listing and the listing of a user they block
C29_Witness ==
  /\ feed_call.pc = "ended" /\ feed_call.result.status = "ok"
  /\ feed_call.result.list # <<>>
  /\ "blocked_users" \in DOMAIN feed_call.user_prefs
  /\ \E k \in DOMAIN feed_call.listings :
       feed_call.listings[k].poster_uid = feed_call.user_uid
  /\ \E k \in DOMAIN feed_call.listings :
       feed_call.listings[k].poster_uid \in feed_call.user_prefs.blocked_users

\* ===================================================================
\* Claims about the life of the persisted similarity rows (SpecTrain)
\* ===================================================================
\* the pairs the upserts of the matrices of f name with user_a < user_b
RecomputedPairs(f) ==
  { <<r.user_a_uid, r.user_b_uid>> :
      r \in UNION { ToSet(UpsertRequests(f, i)) :
                      i \in 0..(Cardinality(DOMAIN f.user_index_map) - 1) } }

\* C30: training only upserts similarity rows: in every step the set of
\* persisted pairs does not shrink, a pair the step does not write keeps its
\* row, and a pair the step writes holds the values of a request of that
\* step for it, stamped with the current day -- the last such request when
\* no upsert of the step failed.
C30_RowsAreOnlyUpserted ==
  [][ /\ DOMAIN sim_rows \subseteq DOMAIN sim_rows'
      /\ \A key \in DOMAIN sim_rows' :
           \/ key \in DOMAIN sim_rows /\ sim_rows'[key] = sim_rows[key]
           \/ /\ daily_run.pc = "sim_store"
              /\ LET reqs == UpsertRequests(cf, daily_run.i)
                     Names(k) == key = <<reqs[k].user_a_uid, reqs[k].user_b_uid>>
                 IN  \E k \in DOMAIN reqs :
                       /\ Names(k)
                       /\ sim_rows'[key] =
                            [similarity_score |-> reqs[k].similarity_score,
                             interaction_count |-> reqs[k].interaction_count,
                             last_computed |-> now]
                       /\ faults_left' = faults_left =>
                            \A later \in DOMAIN reqs : Names(later) => later <= k
    ]_vars

\* a second run has returned without a failed upsert, it has written some
\* pair, and the table still holds a pair that run did not recompute
C30_Witness ==
  /\ daily_run.pc = "idle"
  /\ outcome.result = "returned"
  /\ faults_left = MaxFaults
  /\ ~IsNone(cf.user_similarity_matrix)
  /\ \E kept \in DOMAIN sim_rows : kept \notin RecomputedPairs(cf)
  /\ \E written \in DOMAIN sim_rows : written \in RecomputedPairs(cf)

====
